---- MODULE Spec2Model ----
(***************************************************************************)
(* Model of the tezedge storage core:                                      *)
(*   - MarkSweepGCed  (storage/src/backend/mark_sweep_gced.rs)             *)
(*   - commit log Writer / Reader (storage/src/commit_log/{writer,reader}) *)
(*   - CommitLogs typed wrapper (storage/src/persistent/commit_log.rs)     *)
(* Each subsystem has its own specification (SpecGC, SpecLog, SpecConc);   *)
(* a specification leaves the variables of the other subsystems alone.     *)
(***************************************************************************)
EXTENDS Integers, Sequences, FiniteSets, TLC

VARIABLES
    \* ---- MarkSweepGCed<T> fields ----
    store,              \* T: the wrapped backend, key -> value (partial map)
    commit_store,       \* Vec<LinkedHashSet<EntryHash>>
    cycle_threshold,    \* usize
    cycle_block_count,  \* usize
    gc_pass,            \* observation of the last trait call (history)
    \* ---- commit log: the two files of one named log ----
    index_file,         \* index file: sequence of Index records, TH_LENGTH bytes each
    data_file,          \* data file: sequence of bytes
    index_cursor,       \* file offset of the index file handle (shared by try_clone)
    data_cursor,        \* file offset of the data file handle (shared by try_clone)
    \* ---- Writer / Reader objects ----
    writer_index,       \* Writer::index (Vec<Index>)
    reader,             \* the Reader made by to_reader, and its Reader::indexes
    \* ---- observations (history) ----
    written,            \* payloads of the successful writes, in call order
    write_rets,         \* values returned by the successful writes
    appended,           \* values of the successful appends and their Locations
    ret,                \* the last call and what it returned
    \* ---- threads calling into one CommitLog behind its RwLock ----
    threads,            \* thread -> the call it is in and how far it got
    \* ---- persistent::commit_log::Writer ----
    buf_writer,         \* its BufWriter buffers and last_index
    \* ---- CommitLogs ----
    commit_log_map,     \* CommitLogs::commit_log_map: name -> the log and its RwLock
    \* ---- ActionFileStorage ----
    staging,            \* ActionFileStorage::staging: block hash -> Vec<ContextAction>
    action_file,        \* what ActionsFileWriter::update was handed, in call order
    set_in_staging      \* the calls of set_in_staging and how they ended (history)

gcVars == <<store, commit_store, cycle_threshold, cycle_block_count, gc_pass>>

logVars == <<index_file, data_file, index_cursor, data_cursor, writer_index,
             reader, written, write_rets, appended, ret>>

stagingVars == <<staging, action_file, set_in_staging>>

vars == <<store, commit_store, cycle_threshold, cycle_block_count, gc_pass,
          index_file, data_file, index_cursor, data_cursor, writer_index,
          reader, written, write_rets, appended, ret, threads, buf_writer,
          commit_log_map, staging, action_file, set_in_staging>>

(***************************************************************************)
(* Bounds                                                                  *)
(***************************************************************************)
NumHashes == 1         \* distinct entry hashes
MaxTreeSize == 1       \* hashes registered by one commit
MaxCommits == 4        \* hash sets held by commit_store
MaxThreshold == 3      \* largest cycle_threshold
MaxBlockCount == 2     \* largest cycle_block_count
MaxLen == 1            \* longest payload handed to Writer::write
MaxWrites == 2         \* number of records written to the log
UsizeBits == 4         \* width of usize (64 in the program)
NumThreads == 2        \* threads calling into the log at the same time

Hashes == 1..NumHashes
\* the value stored under a key: the entry's bytes, fixed by its hash
Values == {"entry"}
None == "none"

Min(a, b) == IF a < b THEN a ELSE b
Max(a, b) == IF a > b THEN a ELSE b

\* the hash sets a commit can register
CommitTrees == {S \in SUBSET Hashes : Cardinality(S) <= MaxTreeSize}

(***************************************************************************)
(* The wrapped backend (StorageBackend trait, in-memory map semantics)     *)
(***************************************************************************)
Keys(st) == DOMAIN st

StoreGet(st, key) == IF key \in DOMAIN st THEN st[key] ELSE None

StoreContains(st, key) == key \in DOMAIN st

StorePut(st, key, value) ==
    [k \in (DOMAIN st) \cup {key} |-> IF k = key THEN value ELSE st[k]]

StoreDelete(st, key) == [k \in (DOMAIN st) \ {key} |-> st[k]]

\* a delete loop that empties the backend
StoreClear(st, items) == << >>

\* deleting every item of a set, one by one (the order does not matter)
StoreDeleteAll(st, items) == [k \in (DOMAIN st) \ items |-> st[k]]

(***************************************************************************)
(* MarkSweepGCed::gc and sweep_entries                                     *)
(***************************************************************************)
\* a drain of the whole commit_store
DrainedAll(cs, cbc) == cs

\* commit_store.drain(..cycle_block_count): the drained prefix
Drained(cs, cbc) == SubSeq(cs, 1, cbc)

\* a drain that takes one set more out of commit_store
RetainedShort(cs, cbc) == SubSeq(cs, cbc + 2, Len(cs))

\* Vec::drain(..end) panics when end is larger than the length
DrainFaults(cs, cbc) == cbc > Len(cs)

\* what is left in commit_store after the drain
Retained(cs, cbc) == SubSeq(cs, cbc + 1, Len(cs))

\* .flatten().collect(): union of the drained sets
Flatten(sets) == UNION {sets[i] : i \in 1..Len(sets)}

\* the candidates without the subtraction
GarbageAll(cs, cbc) == Flatten(Drained(cs, cbc))

\* lines 43-54: subtract commit_store.last() and commit_store.first()
Garbage(cs, cbc) ==
    LET rest == Retained(cs, cbc)
        g0 == Flatten(Drained(cs, cbc))
        g1 == IF Len(rest) > 0 THEN g0 \ rest[Len(rest)] ELSE g0
        g2 == IF Len(rest) > 0 THEN g1 \ rest[1] ELSE g1
    IN  g2

\* a sweep that deletes nothing
SweepKeepAll(st, garbage) == st

\* sweep_entries: self.store.delete(&item) for every item of garbage
SweepEntries(st, garbage) == StoreDeleteAll(st, garbage)

\* a condition that waits for one more set than the threshold
GcDueLater(len, ct, cbc) == len > (ct + 1) * cbc

\* start_new_cycle's condition
GcDue(len, ct, cbc) == len >= (ct + 1) * cbc

NoPass == [op |-> "none"]

NoCall == [op |-> "none"]
NoReader == [made |-> FALSE]
Idle == [pc |-> "idle"]
NoBufWriter == [open |-> FALSE]
NoLogs == << >>

\* a log that no Writer has been opened on yet
LogUnused ==
    /\ index_file = << >>
    /\ data_file = << >>
    /\ index_cursor = 0
    /\ data_cursor = 0
    /\ writer_index = << >>
    /\ reader = NoReader
    /\ written = << >>
    /\ write_rets = << >>
    /\ appended = << >>
    /\ ret = NoCall
    /\ threads = [t \in 1..NumThreads |-> Idle]
    /\ buf_writer = NoBufWriter
    /\ commit_log_map = NoLogs

\* a MarkSweepGCed that is not used by the specification at hand
\* initial values of the ActionFileStorage variables in specifications that
\* do not use them
StagingUnused ==
    /\ staging = << >>
    /\ action_file = << >>
    /\ set_in_staging = << >>

GcUnused ==
    /\ store = << >>
    /\ commit_store = << >>
    /\ cycle_threshold = 0
    /\ cycle_block_count = 1
    /\ gc_pass = NoPass

(***************************************************************************)
(* Operations of impl KVStore for MarkSweepGCed                            *)
(***************************************************************************)
Put(key, value) ==
    /\ store' = StorePut(store, key, value)
    /\ gc_pass' = NoPass
    /\ UNCHANGED <<commit_store, cycle_threshold, cycle_block_count>>
    /\ UNCHANGED <<logVars, stagingVars, threads, buf_writer, commit_log_map>>

Delete(key) ==
    /\ store' = StoreDelete(store, key)
    /\ gc_pass' = NoPass
    /\ UNCHANGED <<commit_store, cycle_threshold, cycle_block_count>>
    /\ UNCHANGED <<logVars, stagingVars, threads, buf_writer, commit_log_map>>

StoreCommitTree(commit_tree) ==
    /\ Len(commit_store) < MaxCommits
    /\ commit_store' = Append(commit_store, commit_tree)
    /\ gc_pass' = NoPass
    /\ UNCHANGED <<store, cycle_threshold, cycle_block_count>>
    /\ UNCHANGED <<logVars, stagingVars, threads, buf_writer, commit_log_map>>

StartNewCycle ==
    /\ UNCHANGED <<logVars, stagingVars, threads, buf_writer, commit_log_map>>
    /\ IF GcDue(Len(commit_store), cycle_threshold, cycle_block_count)
       THEN IF DrainFaults(commit_store, cycle_block_count)
            THEN /\ gc_pass' = [op |-> "drain_panic", before |-> store,
                                before_commits |-> commit_store]
                 /\ UNCHANGED <<store, commit_store, cycle_threshold, cycle_block_count>>
            ELSE LET garbage == Garbage(commit_store, cycle_block_count) IN
                 /\ commit_store' = Retained(commit_store, cycle_block_count)
                 /\ store' = SweepEntries(store, garbage)
                 /\ gc_pass' = [op |-> "gc",
                                drained |-> Drained(commit_store, cycle_block_count),
                                garbage |-> garbage,
                                before |-> store,
                                before_commits |-> commit_store]
                 /\ UNCHANGED <<cycle_threshold, cycle_block_count>>
       ELSE /\ gc_pass' = [op |-> "no_gc", before |-> store,
                           before_commits |-> commit_store]
            /\ UNCHANGED <<store, commit_store, cycle_threshold, cycle_block_count>>

InitGC ==
    /\ store = << >>
    /\ commit_store = << >>
    /\ cycle_threshold \in 0..MaxThreshold
    /\ cycle_block_count \in 1..MaxBlockCount
    \* configurations whose collection can start within MaxCommits commits
    /\ (cycle_threshold + 1) * cycle_block_count <= MaxCommits
    /\ gc_pass = NoPass
    /\ LogUnused
    /\ StagingUnused

NextGC ==
    \/ \E key \in Hashes, value \in Values : Put(key, value)
    \/ \E key \in Hashes : Delete(key)
    \/ \E commit_tree \in CommitTrees : StoreCommitTree(commit_tree)
    \/ StartNewCycle

SpecGC == InitGC /\ [][NextGC]_vars

(***************************************************************************)
(* The same operations on a backend whose delete can fail                  *)
(***************************************************************************)
\* sweep_entries when store.delete returns Err for the keys in `failing`
\* and leaves them stored: the result of delete is dropped (line 71), the
\* loop goes on and Ok(()) is returned
SweepEntriesFailing(st, garbage, failing) == StoreDeleteAll(st, garbage \ failing)

\* gc ends with `self.sweep_entries(garbage); Ok(())`
GcResult(failing) == [kind |-> "ok"]

\* start_new_cycle on a backend that fails to delete the keys in `failing`
StartNewCycleFailing(failing) ==
    /\ GcDue(Len(commit_store), cycle_threshold, cycle_block_count)
    /\ failing \subseteq Garbage(commit_store, cycle_block_count) \cap Keys(store)
    /\ commit_store' = Retained(commit_store, cycle_block_count)
    /\ store' = SweepEntriesFailing(store, Garbage(commit_store, cycle_block_count), failing)
    /\ gc_pass' = [op |-> "gc_failing",
                   garbage |-> Garbage(commit_store, cycle_block_count),
                   failed |-> failing,
                   res |-> GcResult(failing)]
    /\ UNCHANGED <<cycle_threshold, cycle_block_count>>
    /\ UNCHANGED <<logVars, stagingVars, threads, buf_writer, commit_log_map>>

NextGCFailing ==
    \/ \E key \in Hashes, value \in Values : Put(key, value)
    \/ \E key \in Hashes : Delete(key)
    \/ \E commit_tree \in CommitTrees : StoreCommitTree(commit_tree)
    \/ \E failing \in SUBSET Hashes : StartNewCycleFailing(failing)

SpecGCFailing == InitGC /\ [][NextGCFailing]_vars

\* C16: a backend failure while deleting a candidate during the sweep is
\* surfaced -- gc returns an error instead of Ok with entries left
\* undeleted.
SweepFailureSurfaced ==
    (gc_pass.op = "gc_failing" /\ gc_pass.failed # {}) => gc_pass.res.kind = "err"

(***************************************************************************)
(* Properties of the garbage collector                                     *)
(***************************************************************************)
\* the hashes registered by the commits that are still in commit_store
RetainedHashes == Flatten(commit_store)

\* C1: GC liveness -- immediately after a GC pass, every hash of a retained
\* commit's hash set that was in the backend before the pass is still there.
GcLiveness ==
    gc_pass.op = "gc" =>
        \A h \in RetainedHashes :
            h \in Keys(gc_pass.before) => h \in Keys(store)

BoundarySets ==
    IF Len(commit_store) = 0 THEN {}
    ELSE commit_store[1] \cup commit_store[Len(commit_store)]

\* C25: boundary-cycle subtraction -- a GC pass never deletes a hash that is
\* a member of the first or of the last hash set of commit_store after the
\* drain.
GcBoundaryKept ==
    gc_pass.op = "gc" =>
        \A h \in BoundarySets :
            /\ h \notin gc_pass.garbage
            /\ h \in Keys(gc_pass.before) => h \in Keys(store)

\* a stored hash of a drained set is kept because the newest retained set
\* holds it too
GcBoundaryWitness ==
    /\ gc_pass.op = "gc"
    /\ Len(commit_store) >= 2
    /\ \E h \in Flatten(gc_pass.drained) :
            /\ h \in commit_store[Len(commit_store)]
            /\ h \notin commit_store[1]
            /\ h \in Keys(gc_pass.before)
            /\ h \in Keys(store)

\* the oldest n sets of a commit_store
Oldest(cs, n) == [i \in 1..n |-> cs[i]]

GcDeletesOnlyDrained ==
    gc_pass.op = "gc" =>
        \A h \in Keys(gc_pass.before) :
            (\A i \in 1..cycle_block_count : h \notin gc_pass.before_commits[i]) =>
                /\ h \in Keys(store)
                /\ store[h] = gc_pass.before[h]

\* a key that was put and is registered only by a retained commit has
\* survived a pass
GcFrameWitness ==
    /\ gc_pass.op = "gc"
    /\ \E h \in Keys(gc_pass.before) :
            /\ h \notin Flatten(gc_pass.drained)
            /\ h \in RetainedHashes
            /\ h \in Keys(store)

(***************************************************************************)
(* Commit log: Index records, Writer and Reader                            *)
(***************************************************************************)
TH_LENGTH == 16

\* the byte values used in payloads
Bytes == {0, 1}

ByteBase == Cardinality(Bytes)

\* every byte string of length 0..n
RECURSIVE ByteStrings(_)
ByteStrings(n) ==
    IF n = 0 THEN {<< >>}
    ELSE LET shorter == ByteStrings(n - 1) IN
         shorter \cup {Append(b, x) : b \in {y \in shorter : Len(y) = n - 1}, x \in Bytes}

Payloads == ByteStrings(MaxLen)

UsizeMax == 2 ^ UsizeBits - 1

\* Index::new(position, data_length)
Index(position, data_length) == [position |-> position, data_length |-> data_length]

\* a seek to the start of the file
SeekStart(file) == 0

\* SeekFrom::End(0) on a file: the offset the next write goes to
SeekEnd(file) == Len(file)

\* metadata.len() of the index file
IndexFileLen(idx) == Len(idx) * TH_LENGTH

\* Writer::last_index: items_count - 1, an i64
LastIndex(idx) == (IndexFileLen(idx) \div TH_LENGTH) - 1

\* Reader::indexes / Writer::read_indexes: seek(Start(0)), read_to_end,
\* chunks_exact(TH_LENGTH); `cursor` is the offset the read starts at
ReadIndexesFrom(idx, cursor) ==
    SubSeq(idx, (cursor \div TH_LENGTH) + 1, Len(idx))

ReaderIndexes(idx) == ReadIndexesFrom(idx, 0)

\* range.iter().fold(0, |acc, item| acc + item.data_length)
RECURSIVE TotalDataSize(_)
TotalDataSize(range) ==
    IF Len(range) = 0 THEN 0
    ELSE range[1].data_length + TotalDataSize(Tail(range))

\* indexes[from..].iter().copied().take(limit)
TakeRange(indexes, from, limit) ==
    SubSeq(indexes, from + 1, Min(Len(indexes), from + limit))

\* BufReader::new: capacity of the read buffer
BufCapacity == 8192

\* read_exact of n bytes at offset pos of the data file
ReadExact(data, pos, n) ==
    IF pos + n <= Len(data)
    THEN [kind |-> "ok", bytes |-> SubSeq(data, pos + 1, pos + n)]
    ELSE [kind |-> "err", error |-> "IoError"]

\* the file offset after read_exact of n bytes at offset pos
CursorAfterRead(data, pos, n) ==
    IF n = 0 THEN pos ELSE Min(Len(data), pos + Max(n, BufCapacity))

\* from + limit in usize; overflow panics when overflow checks are on and
\* wraps when they are off
UsizeAdd(a, b, checked) ==
    IF a + b > UsizeMax
    THEN (IF checked THEN [kind |-> "panic"] ELSE [kind |-> "ok", val |-> (a + b) % (UsizeMax + 1)])
    ELSE [kind |-> "ok", val |-> a + b]

\* the bounds check of Reader::range, lines 50-54
OutOfRange(sum, from, limit, len) == sum > len

\* Reader::range, lines 50-56: the checks made before any data is read
RangeCheck(indexes, from, limit, checked) ==
    LET sum == UsizeAdd(from, limit, checked) IN
    IF sum.kind = "panic" THEN [kind |-> "panic"]
    ELSE IF OutOfRange(sum.val, from, limit, Len(indexes))
    THEN [kind |-> "err", error |-> "OutOfRange"]
    ELSE IF from >= Len(indexes)
    THEN [kind |-> "panic"]     \* indexes[from]: index out of bounds
    ELSE [kind |-> "go"]

\* Reader::range, lines 57-63: read_exact at offset pos of the data file
RangeRead(indexes, data, pos, from, limit) ==
    LET range == TakeRange(indexes, from, limit)
        rd == ReadExact(data, pos, TotalDataSize(range))
    IN  IF rd.kind = "ok"
        THEN [kind |-> "ok", range |-> range, bytes |-> rd.bytes]
        ELSE rd

\* Reader::range after indexes(), run without interruption: the result and
\* the data file offset it leaves behind
RangeOn(indexes, data, cursor, from, limit, checked) ==
    LET chk == RangeCheck(indexes, from, limit, checked) IN
    IF chk.kind # "go"
    THEN [res |-> chk, cursor |-> cursor, read |-> FALSE]
    ELSE LET pos == indexes[from + 1].position IN
         [res |-> RangeRead(indexes, data, pos, from, limit),
          cursor |-> CursorAfterRead(data, pos,
                         TotalDataSize(TakeRange(indexes, from, limit))),
          read |-> TRUE]

(***************************************************************************)
(* Writer and Reader calls made one after the other                        *)
(***************************************************************************)
\* Writer::write, lines 62-72: what it does to the files and the Writer
DoWrite(buf) ==
    LET message_len == Len(buf)
        message_pos == SeekEnd(data_file)
        th == Index(message_pos, message_len)
        new_data == SubSeq(data_file, 1, message_pos) \o buf
                    \o SubSeq(data_file, message_pos + Len(buf) + 1, Len(data_file))
        index_pos == SeekEnd(index_file)
        new_index == SubSeq(index_file, 1, index_pos) \o <<th>>
                     \o SubSeq(index_file, index_pos + 2, Len(index_file))
    IN  /\ data_file' = new_data
        /\ data_cursor' = message_pos + message_len
        /\ index_file' = new_index
        /\ index_cursor' = (index_pos + 1) * TH_LENGTH
        /\ writer_index' = Append(writer_index, th)
        /\ written' = Append(written, buf)
        /\ write_rets' = Append(write_rets, LastIndex(new_index))

\* Writer::write
Write(buf) ==
    /\ Len(written) < MaxWrites
    /\ DoWrite(buf)
    /\ ret' = [op |-> "write", res |-> [kind |-> "ok", val |-> LastIndex(index_file')]]
    /\ UNCHANGED <<reader, appended>>
    /\ UNCHANGED <<gcVars, stagingVars, threads, buf_writer, commit_log_map>>

\* Writer::flush: File::flush has nothing buffered to write
Flush ==
    /\ ret' = [op |-> "flush", res |-> [kind |-> "ok"]]
    /\ UNCHANGED <<index_file, data_file, index_cursor, data_cursor, writer_index,
                   reader, written, write_rets, appended>>
    /\ UNCHANGED <<gcVars, stagingVars, threads, buf_writer, commit_log_map>>

\* Writer::to_reader
ToReader ==
    /\ reader' = [made |-> TRUE, indexes |-> writer_index]
    /\ ret' = [op |-> "to_reader", res |-> [kind |-> "ok"]]
    /\ UNCHANGED <<index_file, data_file, index_cursor, data_cursor, writer_index,
                   written, write_rets, appended>>
    /\ UNCHANGED <<gcVars, stagingVars, threads, buf_writer, commit_log_map>>

\* Reader::indexes
Indexes ==
    /\ reader.made
    /\ index_cursor' = IndexFileLen(index_file)
    /\ ret' = [op |-> "indexes",
               res |-> [kind |-> "ok", indexes |-> ReaderIndexes(index_file)]]
    /\ UNCHANGED <<index_file, data_file, data_cursor, writer_index,
                   reader, written, write_rets, appended>>
    /\ UNCHANGED <<gcVars, stagingVars, threads, buf_writer, commit_log_map>>

\* Reader::range
Range(from, limit, checked) ==
    /\ reader.made
    /\ LET indexes == ReaderIndexes(index_file)
           out == RangeOn(indexes, data_file, data_cursor, from, limit, checked)
       IN  /\ index_cursor' = IndexFileLen(index_file)
           /\ data_cursor' = out.cursor
           /\ ret' = [op |-> "range", from |-> from, limit |-> limit,
                      read |-> out.read, res |-> out.res]
    /\ UNCHANGED <<index_file, data_file, writer_index, reader, written, write_rets,
                   appended>>
    /\ UNCHANGED <<gcVars, stagingVars, threads, buf_writer, commit_log_map>>

\* the `from` arguments tried: small ones and the largest usize
Usizes == (0..MaxWrites) \cup {UsizeMax}

\* the `limit` arguments tried
Limits == 0..MaxWrites

\* overflow checks are a build option; they matter only when the sum overflows
OverflowChecks(a, b) == IF a + b > UsizeMax THEN BOOLEAN ELSE {FALSE}

InitLog ==
    /\ LogUnused
    /\ GcUnused
    /\ StagingUnused

NextLog ==
    \/ \E buf \in Payloads : Write(buf)
    \/ Flush
    \/ ToReader
    \/ Indexes
    \/ \E from \in Usizes, limit \in Limits :
          \E checked \in OverflowChecks(from, limit) : Range(from, limit, checked)

SpecLog == InitLog /\ [][NextLog]_vars

(***************************************************************************)
(* Reader calls during which reading the index file fails                  *)
(***************************************************************************)
\* the steps of Reader::indexes that can return an I/O error
IndexIoSteps == {"seek", "read_to_end"}

\* Reader::indexes, lines 28 and 34: `Err(_) => return vec![]`
IndexesOnError == << >>

\* the index file offset after the failure: untouched when the seek failed,
\* at the start when the read failed
IndexCursorOnError(cursor, step) == IF step = "seek" THEN cursor ELSE 0

\* Reader::indexes whose `step` fails
IndexesFailing(step) ==
    /\ reader.made
    /\ index_cursor' = IndexCursorOnError(index_cursor, step)
    /\ ret' = [op |-> "indexes_failing", step |-> step,
               res |-> [kind |-> "ok", indexes |-> IndexesOnError]]
    /\ UNCHANGED <<index_file, data_file, data_cursor, writer_index,
                   reader, written, write_rets, appended>>
    /\ UNCHANGED <<gcVars, stagingVars, threads, buf_writer, commit_log_map>>

\* Reader::range whose call of indexes() fails at `step`
RangeFailing(from, limit, step) ==
    /\ reader.made
    /\ LET out == RangeOn(IndexesOnError, data_file, data_cursor, from, limit, FALSE)
       IN  /\ index_cursor' = IndexCursorOnError(index_cursor, step)
           /\ data_cursor' = out.cursor
           /\ ret' = [op |-> "range_failing", step |-> step, from |-> from,
                      limit |-> limit, read |-> out.read, res |-> out.res]
    /\ UNCHANGED <<index_file, data_file, writer_index, reader, written, write_rets,
                   appended>>
    /\ UNCHANGED <<gcVars, stagingVars, threads, buf_writer, commit_log_map>>

NextLogIo ==
    \/ \E buf \in Payloads : Write(buf)
    \/ ToReader
    \/ \E step \in IndexIoSteps : IndexesFailing(step)
    \/ \E from \in 0..MaxWrites, limit \in Limits, step \in IndexIoSteps :
          RangeFailing(from, limit, step)

SpecLogIo == InitLog /\ [][NextLogIo]_vars

(***************************************************************************)
(* Properties of Writer and Reader, calls made one after the other         *)
(***************************************************************************)
\* concatenation of a sequence of byte strings
RECURSIVE Concat(_)
Concat(msgs) == IF Len(msgs) = 0 THEN << >> ELSE msgs[1] \o Concat(Tail(msgs))

\* MessageSet iteration: the blob cut into records by the lengths of the
\* Index entries that came with it
RECURSIVE SplitBy(_, _)
SplitBy(bytes, range) ==
    IF Len(range) = 0 THEN << >>
    ELSE IF range[1].data_length > Len(bytes) THEN << >>
    ELSE <<SubSeq(bytes, 1, range[1].data_length)>>
         \o SplitBy(SubSeq(bytes, range[1].data_length + 1, Len(bytes)), Tail(range))

\* C3: append order -- after N successful writes on a fresh log last_index()
\* is N - 1, the k-th write returned k, and range(i, 1) returns exactly the
\* bytes of the i-th write, for every i < N.
AppendOrder ==
    LET N == Len(written) IN
    /\ LastIndex(index_file) = N - 1
    /\ \A k \in 1..N : write_rets[k] = k - 1
    /\ \A i \in 0..(N - 1) :
          LET out == RangeOn(ReaderIndexes(index_file), data_file, data_cursor, i, 1, FALSE).res
          IN  out.kind = "ok" /\ out.bytes = written[i + 1]
    /\ (ret.op = "range" /\ ret.limit = 1 /\ ret.from < N) =>
          (ret.res.kind = "ok" /\ ret.res.bytes = written[ret.from + 1])

\* two records written, then range(1, 1) returned the second payload
AppendOrderWitness ==
    /\ Len(written) = 2
    /\ written[1] # << >>
    /\ written[2] # << >>
    /\ ret.op = "range" /\ ret.from = 1 /\ ret.limit = 1
    /\ ret.res.kind = "ok" /\ ret.res.bytes = written[2]

\* C4: for every from and limit with from + limit not above the record count
\* (limit = 0 and from = count included) range succeeds with exactly `limit`
\* Index entries, those of records from..from+limit-1, and the concatenation
\* of their payloads, which splits back into the payloads.
RangeContract ==
    (ret.op = "range" /\ ret.from + ret.limit <= Len(written)) =>
        /\ ret.res.kind = "ok"
        /\ Len(ret.res.range) = ret.limit
        /\ ret.res.range = SubSeq(index_file, ret.from + 1, ret.from + ret.limit)
        /\ ret.res.bytes = Concat(SubSeq(written, ret.from + 1, ret.from + ret.limit))
        /\ SplitBy(ret.res.bytes, ret.res.range)
               = SubSeq(written, ret.from + 1, ret.from + ret.limit)

\* C5: reader snapshot isolation -- indexes() and range() of a Reader keep
\* reporting exactly the records that existed when to_reader produced it.
SnapshotIsolation ==
    /\ ret.op = "indexes" => ret.res.indexes = reader.indexes
    /\ (ret.op = "range" /\ ret.from + ret.limit <= UsizeMax) =>
          ret.res = RangeOn(reader.indexes, data_file, data_cursor,
                            ret.from, ret.limit, FALSE).res

\* C8: range(from, limit) fails with OutOfRange whenever from + limit exceeds
\* the number of written records, and then reads no data.
RangeBounds ==
    (ret.op = "range" /\ ret.from + ret.limit > Len(written)) =>
        /\ ret.res = [kind |-> "err", error |-> "OutOfRange"]
        /\ ~ret.read

\* C18: an I/O failure while reading the index file is reported as an
\* error of its own -- indexes() does not return an empty log, and a read
\* of an existing record does not fail with OutOfRange.
IndexFaultReported ==
    /\ ret.op = "indexes_failing" => ret.res.kind = "err"
    /\ (ret.op = "range_failing" /\ ret.limit >= 1
            /\ ret.from + ret.limit <= Len(written)) =>
          /\ ret.res.kind = "err"
          /\ ret.res.error # "OutOfRange"

(***************************************************************************)
(* CommitLogs: the typed wrapper (CommitLogWithSchema)                     *)
(***************************************************************************)
MaxLocs == 2           \* longest list of Locations read back in one go

\* std::mem::size_of::<u16>()
ValueWidth == 2

MaxValue == 2          \* largest value appended

\* the values of the schema's type: an unsigned number ValueWidth bytes wide
TypedValues == 0..Min(MaxValue, ByteBase ^ ValueWidth - 1)

\* to_be_bytes with the bytes reversed
EncodeLittleEndian(v) == [i \in 1..ValueWidth |-> (v \div (ByteBase ^ (i - 1))) % ByteBase]

\* Encoder::encode of num_codec!: to_be_bytes, most significant byte first
Encode(v) == [i \in 1..ValueWidth |-> (v \div (ByteBase ^ (ValueWidth - i))) % ByteBase]

\* from_be_bytes
RECURSIVE FromBeBytes(_)
FromBeBytes(bytes) ==
    IF Len(bytes) = 0 THEN 0
    ELSE bytes[Len(bytes)] + ByteBase * FromBeBytes(SubSeq(bytes, 1, Len(bytes) - 1))

\* Decoder::decode of num_codec!
Decode(bytes) ==
    IF Len(bytes) = ValueWidth
    THEN [kind |-> "ok", val |-> FromBeBytes(bytes)]
    ELSE [kind |-> "err", error |-> "DecodeError"]

Location(offset, byte_len) == [offset |-> offset, len |-> byte_len]

RangeOf(offset, byte_len, count) == [offset |-> offset, len |-> byte_len, count |-> count]

\* a test that also calls the location just before `prev` consecutive
IsNeighbour(self, prev) ==
    (self.offset - prev.offset = 1) \/ (prev.offset - self.offset = 1)

\* Location::is_consecutive
IsConsecutive(self, prev) ==
    (prev.offset < self.offset) /\ (self.offset - prev.offset = 1)

\* a merge that counts the location but forgets its bytes
ExtendCountOnly(range, curr) == RangeOf(range.offset, range.len, range.count + 1)

\* lines 161-162: range.1 += curr.1; range.2 += 1
Extend(range, curr) == RangeOf(range.offset, range.len + curr.len, range.count + 1)

\* the loop of fold_consecutive_locations: `ranges` so far, the open `range`,
\* the previous location, and the locations still to visit
RECURSIVE FoldLoop(_, _, _, _)
FoldLoop(ranges, range, prev, rest) ==
    IF Len(rest) = 0 THEN Append(ranges, range)
    ELSE LET curr == rest[1] IN
         IF IsConsecutive(curr, prev)
         THEN FoldLoop(ranges, Extend(range, curr), curr, Tail(rest))
         ELSE FoldLoop(Append(ranges, range),
                       RangeOf(curr.offset, curr.len, 1),
                       curr, Tail(rest))

\* fold_consecutive_locations
FoldConsecutiveLocations(locations) ==
    IF Len(locations) = 0 THEN << >>
    ELSE FoldLoop(<< >>, RangeOf(locations[1].offset, locations[1].len, 1),
                  locations[1], Tail(locations))

\* CommitLog::read(from, limit): Reader::range on the log's files; the
\* MessageSet it returns iterates over the records of the blob
CommitLogRead(idx, data, cursor, from, limit) ==
    LET out == RangeOn(ReaderIndexes(idx), data, cursor, from, limit, FALSE) IN
    [res |-> IF out.res.kind = "ok"
             THEN [kind |-> "ok", msgs |-> SplitBy(out.res.bytes, out.res.range)]
             ELSE out.res,
     cursor |-> out.cursor]

\* CommitLogs::get after cl.read: next(), decode
GetFrom(read, location) ==
    IF read.kind = "panic" THEN read
    ELSE IF read.kind = "err" THEN [kind |-> "err", error |-> "ReadError"]
    ELSE IF Len(read.msgs) = 0 THEN [kind |-> "err", error |-> "CorruptData"]
    ELSE LET value == Decode(read.msgs[1]) IN
         IF value.kind = "ok" THEN value
         ELSE [kind |-> "err", error |-> "SchemaError"]

\* .map(decode).collect() into a Result: the first failure, else all values
RECURSIVE DecodeAll(_)
DecodeAll(msgs) ==
    IF Len(msgs) = 0 THEN [kind |-> "ok", vals |-> << >>]
    ELSE LET value == Decode(msgs[1]) IN
         IF value.kind # "ok" THEN [kind |-> "err", error |-> "CorruptData"]
         ELSE LET others == DecodeAll(Tail(msgs)) IN
              IF others.kind # "ok" THEN others
              ELSE [kind |-> "ok", vals |-> <<value.val>> \o others.vals]

\* CommitLogs::get_range after cl.read: take(range.2), decode each
GetRangeFrom(read, range) ==
    IF read.kind = "panic" THEN read
    ELSE IF read.kind = "err" THEN [kind |-> "err", error |-> "ReadError"]
    ELSE DecodeAll(SubSeq(read.msgs, 1, Min(range.count, Len(read.msgs))))

\* get on each location, one call after the other: the results
GetEach(idx, data, locations) ==
    [i \in 1..Len(locations) |->
        GetFrom(CommitLogRead(idx, data, 0, locations[i].offset, 1).res, locations[i])]

\* get_range on each range, one call after the other: the results
GetRangeEach(idx, data, ranges) ==
    [i \in 1..Len(ranges) |->
        GetRangeFrom(CommitLogRead(idx, data, 0, ranges[i].offset, ranges[i].count).res,
                     ranges[i])]

\* the data file offset left behind by reading the given (from, limit) pairs
\* one after the other
RECURSIVE CursorAfterReads(_, _, _, _)
CursorAfterReads(idx, data, cursor, reads) ==
    IF Len(reads) = 0 THEN cursor
    ELSE CursorAfterReads(idx, data,
             CommitLogRead(idx, data, cursor, reads[1][1], reads[1][2]).cursor,
             Tail(reads))

\* CommitLogs::append
AppendValue(value) ==
    /\ Len(written) < MaxWrites
    /\ LET bytes == Encode(value) IN
       /\ DoWrite(bytes)
       /\ LET location == Location(LastIndex(index_file'), Len(bytes)) IN
          /\ appended' = Append(appended, [value |-> value, loc |-> location])
          /\ ret' = [op |-> "append", res |-> [kind |-> "ok", loc |-> location]]
    /\ UNCHANGED reader
    /\ UNCHANGED <<gcVars, stagingVars, threads, buf_writer, commit_log_map>>

\* CommitLogs::get
Get(location) ==
    /\ LET read == CommitLogRead(index_file, data_file, data_cursor, location.offset, 1) IN
       /\ index_cursor' = IndexFileLen(index_file)
       /\ data_cursor' = read.cursor
       /\ ret' = [op |-> "get", loc |-> location, res |-> GetFrom(read.res, location)]
    /\ UNCHANGED <<index_file, data_file, writer_index, reader, written, write_rets,
                   appended>>
    /\ UNCHANGED <<gcVars, stagingVars, threads, buf_writer, commit_log_map>>

\* CommitLogs::get_range
GetRange(range) ==
    /\ LET read == CommitLogRead(index_file, data_file, data_cursor, range.offset, range.count) IN
       /\ index_cursor' = IndexFileLen(index_file)
       /\ data_cursor' = read.cursor
       /\ ret' = [op |-> "get_range", range |-> range, res |-> GetRangeFrom(read.res, range)]
    /\ UNCHANGED <<index_file, data_file, writer_index, reader, written, write_rets,
                   appended>>
    /\ UNCHANGED <<gcVars, stagingVars, threads, buf_writer, commit_log_map>>

\* a caller reads a list of Locations twice: get on each Location, then
\* get_range on each Range of fold_consecutive_locations
ReadLocations(locations) ==
    /\ Len(locations) > 0
    /\ LET ranges == FoldConsecutiveLocations(locations)
           reads == [i \in 1..Len(locations) |-> <<locations[i].offset, 1>>]
                    \o [i \in 1..Len(ranges) |-> <<ranges[i].offset, ranges[i].count>>]
       IN  /\ index_cursor' = IndexFileLen(index_file)
           /\ data_cursor' = CursorAfterReads(index_file, data_file, data_cursor, reads)
           /\ ret' = [op |-> "read_locations", locs |-> locations, ranges |-> ranges,
                      singles |-> GetEach(index_file, data_file, locations),
                      folded |-> GetRangeEach(index_file, data_file, ranges)]
    /\ UNCHANGED <<index_file, data_file, writer_index, reader, written, write_rets,
                   appended>>
    /\ UNCHANGED <<gcVars, stagingVars, threads, buf_writer, commit_log_map>>

\* every sequence of length 0..n over a set
RECURSIVE SeqsUpTo(_, _)
SeqsUpTo(S, n) ==
    IF n = 0 THEN {<< >>}
    ELSE LET shorter == SeqsUpTo(S, n - 1) IN
         shorter \cup {Append(q, x) : q \in {y \in shorter : Len(y) = n - 1}, x \in S}

\* the Locations that append has returned so far
ReturnedLocations == {appended[i].loc : i \in 1..Len(appended)}

\* the Locations and Ranges a caller may ask for
AskedLocations == {Location(o, ValueWidth) : o \in 0..MaxWrites}

AskedRanges ==
    {RangeOf(o, c * ValueWidth, c) : o \in 0..MaxWrites, c \in 0..MaxWrites}

InitTyped ==
    /\ LogUnused
    /\ GcUnused
    /\ StagingUnused

NextTyped ==
    \/ \E value \in TypedValues : AppendValue(value)
    \/ \E location \in AskedLocations : Get(location)
    \/ \E range \in AskedRanges : GetRange(range)
    \/ \E locations \in SeqsUpTo(ReturnedLocations, MaxLocs) : ReadLocations(locations)

SpecTyped == InitTyped /\ [][NextTyped]_vars

(***************************************************************************)
(* Properties of the typed wrapper                                         *)
(***************************************************************************)
\* what get(location) returns on the log as it is now
GetNow(location) ==
    GetFrom(CommitLogRead(index_file, data_file, data_cursor, location.offset, 1).res,
            location)

\* C9: typed round trip -- get(L) with the Location L returned by append(v)
\* returns v, whatever was appended before or after.
TypedRoundTrip ==
    /\ \A i \in 1..Len(appended) :
          GetNow(appended[i].loc) = [kind |-> "ok", val |-> appended[i].value]
    /\ ret.op = "get" =>
          \A i \in 1..Len(appended) :
              appended[i].loc = ret.loc =>
                  ret.res = [kind |-> "ok", val |-> appended[i].value]

\* get of the second of two appended values
TypedRoundTripWitness ==
    /\ Len(appended) = 2
    /\ appended[2].value = 1
    /\ ret.op = "get"
    /\ ret.loc = appended[2].loc
    /\ ret.res = [kind |-> "ok", val |-> 1]

\* C10: folded range reads equal single reads -- get_range on each Range of
\* fold_consecutive_locations, concatenated, gives the same values in the
\* same order as get on each Location.
FoldedReadsEqual ==
    ret.op = "read_locations" =>
        /\ \A i \in 1..Len(ret.singles) : ret.singles[i].kind = "ok"
        /\ \A i \in 1..Len(ret.folded) : ret.folded[i].kind = "ok"
        /\ Concat([i \in 1..Len(ret.folded) |-> ret.folded[i].vals])
              = [i \in 1..Len(ret.singles) |-> ret.singles[i].val]

\* two locations read back, folded into one range of two records with
\* different values
FoldedReadsWitness ==
    /\ ret.op = "read_locations"
    /\ Len(appended) = 2
    /\ appended[1].value # appended[2].value
    /\ Len(ret.locs) = 2
    /\ ret.locs[1].offset = 0 /\ ret.locs[2].offset = 1
    /\ Len(ret.ranges) = 1
    /\ ret.ranges[1].count = 2
    /\ ret.folded[1].kind = "ok" /\ Len(ret.folded[1].vals) = 2

(***************************************************************************)
(* A typed log that also holds records written without the schema's codec  *)
(***************************************************************************)
NextForeign ==
    \/ \E buf \in Payloads : Write(buf)
    \/ \E value \in TypedValues : AppendValue(value)
    \/ \E location \in AskedLocations : Get(location)
    \/ \E range \in AskedRanges : GetRange(range)

SpecForeign == InitTyped /\ [][NextForeign]_vars

\* the record at an offset does not decode into the schema's value type
RecordUndecodable(offset) == Decode(written[offset + 1]).kind # "ok"

\* get_range fails with CorruptData when a record of the range cannot be
\* decoded
GetRangeCorruptData ==
    (/\ ret.op = "get_range"
     /\ ret.range.offset + ret.range.count <= Len(written)
     /\ \E i \in 0..(ret.range.count - 1) : RecordUndecodable(ret.range.offset + i))
        => ret.res = [kind |-> "err", error |-> "CorruptData"]

\* C17: get(location) and get_range(range) both fail with CorruptData when a
\* stored record cannot be decoded into the schema's value type.
TypedCorruptData ==
    /\ (/\ ret.op = "get"
        /\ ret.loc.offset < Len(written)
        /\ RecordUndecodable(ret.loc.offset))
           => ret.res = [kind |-> "err", error |-> "CorruptData"]
    /\ GetRangeCorruptData

(***************************************************************************)
(* Threads on one CommitLog: CommitLogs::append takes the log's write lock, *)
(* get / get_range take its read lock and run Reader::range step by step   *)
(* on the file handles that every Reader shares                            *)
(***************************************************************************)
Threads == 1..NumThreads

\* the threads inside cl.read(): holders of the read lock
ReadLockHolders == {t \in Threads : threads[t].pc # "idle"}

\* cl.write() is granted only when nobody holds the lock
WriteLockFree == ReadLockHolders = {}

\* the (from, limit) pairs the reading threads ask for
ConcReads == {<<from, 1>> : from \in 0..(MaxWrites - 1)}

\* the value of the next append: different from the one before it
NextValue == Len(appended) % (MaxValue + 1)

\* CommitLogs::append under the write lock
ConcAppend(t, value) ==
    /\ WriteLockFree
    /\ Len(written) < MaxWrites
    /\ LET bytes == Encode(value) IN
       /\ DoWrite(bytes)
       /\ LET location == Location(LastIndex(index_file'), Len(bytes)) IN
          /\ appended' = Append(appended, [value |-> value, loc |-> location])
          /\ ret' = [op |-> "append", res |-> [kind |-> "ok", loc |-> location]]
    /\ UNCHANGED <<reader, threads>>
    /\ UNCHANGED <<gcVars, stagingVars, buf_writer, commit_log_map>>

\* CommitLogs::flush: the write lock of the log, then Writer::flush
ConcFlush(t) ==
    /\ WriteLockFree
    /\ ret' = [op |-> "flush", res |-> [kind |-> "ok"]]
    /\ UNCHANGED <<index_file, data_file, index_cursor, data_cursor, writer_index,
                   reader, written, write_rets, appended, threads>>
    /\ UNCHANGED <<gcVars, stagingVars, buf_writer, commit_log_map>>

\* Writer::to_reader while other threads read
ConcToReader(t) ==
    /\ threads[t].pc = "idle"
    /\ reader' = [made |-> TRUE, indexes |-> writer_index]
    /\ ret' = [op |-> "to_reader", res |-> [kind |-> "ok"]]
    /\ UNCHANGED <<index_file, data_file, index_cursor, data_cursor, writer_index,
                   written, write_rets, appended, threads>>
    /\ UNCHANGED <<gcVars, stagingVars, buf_writer, commit_log_map>>

\* CommitLogs::get / get_range: cl.read() granted, Reader::range entered
BeginRange(t, from, limit) ==
    /\ threads[t].pc = "idle"
    /\ threads' = [threads EXCEPT ![t] =
                     [pc |-> "index_seek", op |-> "range", from |-> from, limit |-> limit]]
    /\ UNCHANGED logVars
    /\ UNCHANGED <<gcVars, stagingVars, buf_writer, commit_log_map>>

\* Reader::indexes entered under the read lock
BeginIndexes(t) ==
    /\ threads[t].pc = "idle"
    /\ threads' = [threads EXCEPT ![t] =
                     [pc |-> "index_seek", op |-> "indexes", from |-> 0, limit |-> 0]]
    /\ UNCHANGED logVars
    /\ UNCHANGED <<gcVars, stagingVars, buf_writer, commit_log_map>>

\* Reader::indexes, line 26: index_file_buf_reader.seek(SeekFrom::Start(0))
IndexSeek(t) ==
    /\ threads[t].pc = "index_seek"
    /\ index_cursor' = 0
    /\ threads' = [threads EXCEPT ![t].pc = "index_read"]
    /\ UNCHANGED <<index_file, data_file, data_cursor, writer_index, reader,
                   written, write_rets, appended, ret>>
    /\ UNCHANGED <<gcVars, stagingVars, buf_writer, commit_log_map>>

\* Reader::indexes, lines 30-42: read_to_end from the current offset; for
\* range, the checks of lines 50-56 follow
IndexRead(t) ==
    /\ threads[t].pc = "index_read"
    /\ LET me == threads[t]
           indexes == ReadIndexesFrom(index_file, index_cursor)
           chk == RangeCheck(indexes, me.from, me.limit, FALSE)
       IN  /\ index_cursor' = IndexFileLen(index_file)
           /\ threads' = [threads EXCEPT ![t] =
                 IF me.op = "indexes"
                 THEN [pc |-> "done", op |-> me.op, from |-> me.from, limit |-> me.limit,
                       read |-> [kind |-> "ok", indexes |-> indexes]]
                 ELSE IF chk.kind # "go"
                 THEN [pc |-> "done", op |-> me.op, from |-> me.from, limit |-> me.limit,
                       read |-> chk]
                 ELSE [pc |-> "data_seek", op |-> me.op, from |-> me.from,
                       limit |-> me.limit, indexes |-> indexes]]
    /\ UNCHANGED <<index_file, data_file, data_cursor, writer_index, reader,
                   written, write_rets, appended, ret>>
    /\ UNCHANGED <<gcVars, stagingVars, buf_writer, commit_log_map>>

\* Reader::range, line 59: data_file_buf_reader.seek(Start(from_index.position))
DataSeek(t) ==
    /\ threads[t].pc = "data_seek"
    /\ data_cursor' = threads[t].indexes[threads[t].from + 1].position
    /\ threads' = [threads EXCEPT ![t].pc = "data_read"]
    /\ UNCHANGED <<index_file, data_file, index_cursor, writer_index, reader,
                   written, write_rets, appended, ret>>
    /\ UNCHANGED <<gcVars, stagingVars, buf_writer, commit_log_map>>

\* Reader::range, line 60: read_exact from the current offset
DataRead(t) ==
    /\ threads[t].pc = "data_read"
    /\ LET me == threads[t]
           total == TotalDataSize(TakeRange(me.indexes, me.from, me.limit))
       IN  /\ data_cursor' = CursorAfterRead(data_file, data_cursor, total)
           /\ threads' = [threads EXCEPT ![t] =
                 [pc |-> "done", op |-> me.op, from |-> me.from, limit |-> me.limit,
                  read |-> RangeRead(me.indexes, data_file, data_cursor, me.from, me.limit)]]
    /\ UNCHANGED <<index_file, data_file, index_cursor, writer_index, reader,
                   written, write_rets, appended, ret>>
    /\ UNCHANGED <<gcVars, stagingVars, buf_writer, commit_log_map>>

\* the call returns and the read lock is released
Return(t) ==
    /\ threads[t].pc = "done"
    /\ threads' = [threads EXCEPT ![t] = Idle]
    /\ UNCHANGED logVars
    /\ UNCHANGED <<gcVars, stagingVars, buf_writer, commit_log_map>>

InitConc ==
    /\ LogUnused
    /\ GcUnused
    /\ StagingUnused

NextConc ==
    \/ \E t \in Threads : ConcAppend(t, NextValue)
    \/ \E t \in Threads : ConcFlush(t)
    \/ \E t \in Threads : ConcToReader(t)
    \/ \E t \in Threads, rd \in ConcReads : BeginRange(t, rd[1], rd[2])
    \/ \E t \in Threads : BeginIndexes(t)
    \/ \E t \in Threads : IndexSeek(t)
    \/ \E t \in Threads : IndexRead(t)
    \/ \E t \in Threads : DataSeek(t)
    \/ \E t \in Threads : DataRead(t)
    \/ \E t \in Threads : Return(t)

SpecConc == InitConc /\ [][NextConc]_vars

(***************************************************************************)
(* Properties of the log under concurrent calls                            *)
(***************************************************************************)
\* C6: concurrent reads are safe -- every range / indexes call that runs
\* while other threads read returns exactly the index entries and payload
\* bytes of the records it asked for.
ConcurrentReadsSafe ==
    \A t \in Threads :
        threads[t].pc = "done" =>
            LET me == threads[t] IN
            IF me.op = "indexes"
            THEN me.read.indexes = index_file
            ELSE me.from + me.limit <= Len(written) =>
                    /\ me.read.kind = "ok"
                    /\ me.read.range = SubSeq(index_file, me.from + 1, me.from + me.limit)
                    /\ me.read.bytes
                          = Concat(SubSeq(written, me.from + 1, me.from + me.limit))

\* the bytes an Index record points to
PayloadAt(data, th) == SubSeq(data, th.position + 1, th.position + th.data_length)

\* C7: records are immutable and never deleted -- no step of any thread
\* changes an index record that exists or the bytes it points to, and the
\* record count never decreases.
RecordsImmutable ==
    [][ /\ Len(index_file') >= Len(index_file)
        /\ \A i \in 1..Len(index_file) :
              /\ index_file'[i] = index_file[i]
              /\ PayloadAt(data_file', index_file'[i]) = PayloadAt(data_file, index_file[i])
      ]_vars

\* two different records, a Reader made between the two writes, and two
\* threads in the middle of reading them
RecordsImmutableWitness ==
    /\ Len(written) = 2
    /\ written[1] # written[2]
    /\ PayloadAt(data_file, index_file[1]) = written[1]
    /\ reader.made /\ Len(reader.indexes) = 1
    /\ \E t, u \in Threads :
          /\ t # u
          /\ threads[t].pc = "done"
          /\ threads[u].pc = "data_read"

(***************************************************************************)
(* fold_consecutive_locations on its own: any list of Locations            *)
(***************************************************************************)
MaxFoldLen == 3        \* longest list of Locations folded
MaxOffset == 3         \* largest record offset in a Location
MaxLocLen == 2         \* largest byte length in a Location

\* the Locations handed to fold_consecutive_locations
FoldLocations == {Location(o, l) : o \in 0..MaxOffset, l \in 1..MaxLocLen}

\* the call of fold_consecutive_locations on the list at hand
Fold ==
    /\ ret.op = "fold_input"
    /\ ret' = [op |-> "fold", locs |-> ret.locs,
               ranges |-> FoldConsecutiveLocations(ret.locs)]
    /\ UNCHANGED <<index_file, data_file, index_cursor, data_cursor, writer_index,
                   reader, written, write_rets, appended, threads>>
    /\ UNCHANGED <<gcVars, stagingVars, buf_writer, commit_log_map>>

InitFold ==
    /\ index_file = << >>
    /\ data_file = << >>
    /\ index_cursor = 0
    /\ data_cursor = 0
    /\ writer_index = << >>
    /\ reader = NoReader
    /\ written = << >>
    /\ write_rets = << >>
    /\ appended = << >>
    /\ threads = [t \in 1..NumThreads |-> Idle]
    /\ buf_writer = NoBufWriter
    /\ commit_log_map = NoLogs
    /\ \E locations \in SeqsUpTo(FoldLocations, MaxFoldLen) :
          ret = [op |-> "fold_input", locs |-> locations]
    /\ GcUnused
    /\ StagingUnused

NextFold == Fold

SpecFold == InitFold /\ [][NextFold]_vars

\* the elements of a set of numbers in increasing order
Sorted(S) ==
    CHOOSE s \in [1..Cardinality(S) -> S] : \A i, j \in 1..Cardinality(S) : i < j => s[i] < s[j]

\* the positions of the input where the offset is not the previous offset
\* plus one, the first position included
RangeStarts(locs) ==
    Sorted({i \in 1..Len(locs) : i = 1 \/ locs[i].offset # locs[i - 1].offset + 1})

\* the position after the last member of the k-th range
RangeEnd(locs, k) ==
    IF k < Len(RangeStarts(locs)) THEN RangeStarts(locs)[k + 1] ELSE Len(locs) + 1

\* C11: fold merges a location into the current range exactly when its
\* offset is the previous input location's offset plus one; an equal,
\* smaller or more distant offset starts a new range; empty input gives
\* empty output and a single location one range of count 1.
FoldMergesExactly ==
    ret.op = "fold" =>
        LET locs == ret.locs
            ranges == ret.ranges
        IN  /\ Len(locs) = 0 => ranges = << >>
            /\ Len(locs) = 1 => ranges = <<RangeOf(locs[1].offset, locs[1].len, 1)>>
            /\ Len(ranges) = Len(RangeStarts(locs))
            /\ \A k \in 1..Len(ranges) :
                  /\ ranges[k].offset = locs[RangeStarts(locs)[k]].offset
                  /\ ranges[k].count = RangeEnd(locs, k) - RangeStarts(locs)[k]

\* the example of the claim scaled to the offsets of the model: two
\* consecutive locations and a distant one give a range of two and a range
\* of one
FoldMergesWitness ==
    /\ ret.op = "fold"
    /\ ret.locs = <<Location(0, 2), Location(1, 2), Location(3, 2)>>
    /\ ret.ranges = <<RangeOf(0, 4, 2), RangeOf(3, 2, 1)>>

RECURSIVE SumCounts(_)
SumCounts(ranges) ==
    IF Len(ranges) = 0 THEN 0 ELSE ranges[1].count + SumCounts(Tail(ranges))

RECURSIVE SumLens(_)
SumLens(locs) == IF Len(locs) = 0 THEN 0 ELSE locs[1].len + SumLens(Tail(locs))

\* the offsets start..start+count-1 of every range, in output order
RECURSIVE Expand(_)
Expand(ranges) ==
    IF Len(ranges) = 0 THEN << >>
    ELSE [i \in 1..ranges[1].count |-> ranges[1].offset + i - 1] \o Expand(Tail(ranges))

NumEntries == 4        \* distinct hashes of stored entries

EntryHashes == 1..NumEntries

\* Entry::Blob
Blob == [kind |-> "blob"]

\* Entry::Tree: the entry_hash of every child node
Tree(children) == [kind |-> "tree", children |-> children]

\* Entry::Commit: its root_hash
Commit(root_hash) == [kind |-> "commit", root_hash |-> root_hash]

\* stored bytes that bincode::deserialize rejects
Undecodable == [kind |-> "undecodable"]

\* what can be stored under hash h: an entry refers to entries by their
\* hashes, which are fixed before its own hash is, so the graph is acyclic
EntriesAt(h) ==
    {Blob, Undecodable}
        \cup {Tree(children) : children \in SUBSET ((h + 1)..NumEntries)}
        \cup {Commit(root_hash) : root_hash \in (h + 1)..NumEntries}

\* the hash the walk starts from: entries refer to higher hashes only, so
\* the entries below the start play no part and the start is the lowest hash
StartHash == CHOOSE h \in EntryHashes : \A g \in EntryHashes : h <= g

\* the backends that store, or not, an entry under each hash from h on
RECURSIVE EntryStoresFrom(_)
EntryStoresFrom(h) ==
    IF h > NumEntries THEN {<< >>}
    ELSE LET higher == EntryStoresFrom(h + 1) IN
         higher \cup {StorePut(st, h, entry) : st \in higher, entry \in EntriesAt(h)}

\* the backends the walk runs on
EntryStores == EntryStoresFrom(StartHash)

\* the candidate sets handed to the walk: every hash, or every hash but one
CandidateSets == {EntryHashes \ spared : spared \in {{}} \cup {{h} : h \in EntryHashes}}

\* get_entry: Err when the bytes do not deserialize, Ok(None) when the key
\* is absent, Ok(Some(entry)) otherwise
GetEntry(st, key) ==
    IF key \notin DOMAIN st THEN [kind |-> "none"]
    ELSE IF st[key] = Undecodable THEN [kind |-> "err"]
    ELSE [kind |-> "some", entry |-> st[key]]

\* mark_entries_recursively on the entry stored under `hash`, and the
\* for_each over the children of a tree
RECURSIVE MarkEntriesRecursively(_, _, _)
RECURSIVE MarkChildren(_, _, _)
MarkEntriesRecursively(st, hash, garbage) ==
    LET entry == st[hash]
        marked == garbage \ {hash}
    IN  IF entry.kind = "tree" THEN MarkChildren(st, entry.children, marked)
        ELSE IF entry.kind = "commit" THEN MarkChildren(st, {entry.root_hash}, marked)
        ELSE marked

\* a for_each that stops after the first child
MarkFirstChild(st, children, garbage) ==
    IF children = {} THEN garbage
    ELSE LET child == CHOOSE c \in children : \A d \in children : c <= d
             got == GetEntry(st, child)
         IN  IF got.kind = "some"
             THEN MarkEntriesRecursively(st, child, garbage)
             ELSE garbage

\* Ok(Some(entry)) => recurse; `_ => {}` for everything else
MarkChildren(st, children, garbage) ==
    IF children = {} THEN garbage
    ELSE LET child == CHOOSE c \in children : \A d \in children : c <= d
             got == GetEntry(st, child)
             after == IF got.kind = "some"
                      THEN MarkEntriesRecursively(st, child, garbage)
                      ELSE garbage
         IN  MarkChildren(st, children \ {child}, after)

\* a mark_entries that leaves a hash alone when it is not a commit
MarkEntriesSkipping(st, garbage, entry_hash) ==
    LET got == GetEntry(st, entry_hash) IN
    IF got.kind = "some" /\ got.entry.kind = "commit"
    THEN [kind |-> "ok", garbage |-> MarkEntriesRecursively(st, entry_hash, garbage)]
    ELSE [kind |-> "ok", garbage |-> garbage]

\* mark_entries: the walk from a commit, panic!("Not commit") otherwise
MarkEntries(st, garbage, entry_hash) ==
    LET got == GetEntry(st, entry_hash) IN
    IF got.kind = "some" /\ got.entry.kind = "commit"
    THEN [kind |-> "ok", garbage |-> MarkEntriesRecursively(st, entry_hash, garbage)]
    ELSE [kind |-> "panic", garbage |-> garbage]

\* a call of mark_entries on the candidate set and hash at hand
Mark ==
    /\ gc_pass.op = "mark_input"
    /\ gc_pass' = [op |-> "mark", entry_hash |-> gc_pass.entry_hash,
                   candidates |-> gc_pass.garbage,
                   res |-> MarkEntries(store, gc_pass.garbage, gc_pass.entry_hash)]
    /\ UNCHANGED <<store, commit_store, cycle_threshold, cycle_block_count>>
    /\ UNCHANGED <<logVars, stagingVars, threads, buf_writer, commit_log_map>>

InitMark ==
    /\ store \in EntryStores
    /\ commit_store = << >>
    /\ cycle_threshold = 0
    /\ cycle_block_count = 1
    /\ \E garbage \in CandidateSets :
          gc_pass = [op |-> "mark_input", entry_hash |-> StartHash, garbage |-> garbage]
    /\ LogUnused
    /\ StagingUnused

NextMark == Mark

SpecMark == InitMark /\ [][NextMark]_vars

(***************************************************************************)
(* Properties of the mark walk                                             *)
(***************************************************************************)
\* the hashes an entry refers to, when it can be read
Refs(st, hash) ==
    LET got == GetEntry(st, hash) IN
    IF got.kind # "some" THEN {}
    ELSE IF got.entry.kind = "tree" THEN got.entry.children
    ELSE IF got.entry.kind = "commit" THEN {got.entry.root_hash}
    ELSE {}

\* the hashes looked up by a walk that starts at `hash`
RECURSIVE LookedUp(_, _)
LookedUp(st, hash) == {hash} \cup UNION {LookedUp(st, child) : child \in Refs(st, hash)}

\* C14: if an entry fails to decode during the mark walk, the pass is
\* aborted: the walk does not run to its end with an incomplete
\* reachability set.
MarkWalkAborts ==
    gc_pass.op = "mark" =>
        ((\E hash \in LookedUp(store, gc_pass.entry_hash) : GetEntry(store, hash).kind = "err")
            => gc_pass.res.kind # "ok")

\* C15: marking from a hash that resolves to an entry which is not a Commit
\* is fatal -- mark_entries stops with a fatal error and neither skips the
\* hash silently nor removes anything from the candidate set.
MarkNotCommitFatal ==
    gc_pass.op = "mark" =>
        LET got == GetEntry(store, gc_pass.entry_hash) IN
        (got.kind = "some" /\ got.entry.kind # "commit") =>
            /\ gc_pass.res.kind = "panic"
            /\ gc_pass.res.garbage = gc_pass.candidates

\* mark_entries called on the hash of a tree that has a stored child, both
\* of them candidates
MarkNotCommitWitness ==
    /\ gc_pass.op = "mark"
    /\ gc_pass.entry_hash \in DOMAIN store
    /\ store[gc_pass.entry_hash].kind = "tree"
    /\ \E child \in store[gc_pass.entry_hash].children :
          /\ child \in DOMAIN store
          /\ {gc_pass.entry_hash, child} \subseteq gc_pass.candidates
    /\ gc_pass.res.kind = "panic"

\* the hashes a walk can come to: the start and, for every stored entry it
\* comes to, the root hash of a commit and the children of a tree
RECURSIVE ReachableFrom(_, _, _)
ReachableFrom(st, frontier, seen) ==
    IF frontier = {} THEN seen
    ELSE LET hash == CHOOSE h \in frontier : TRUE
         IN  ReachableFrom(st, (frontier \cup Refs(st, hash)) \ (seen \cup {hash}),
                           seen \cup {hash})

Reachable(st, hash) == ReachableFrom(st, {hash}, {})

\* more than one stored entry refers to the hash
Shared(st, hash) ==
    \E p, q \in DOMAIN st : p # q /\ hash \in Refs(st, p) /\ hash \in Refs(st, q)

\* C29: starting from a stored Commit, mark_entries comes to an end on every
\* acyclic entry graph, shared subtrees included; it removes no hash from
\* the candidate set that the commit does not reach, and when every entry
\* the commit reaches is stored it removes exactly the hashes of the commit,
\* its root and every Tree and Blob below it.
MarkWalkExact ==
    (/\ gc_pass.op = "mark"
     /\ gc_pass.entry_hash \in DOMAIN store
     /\ store[gc_pass.entry_hash].kind = "commit") =>
        LET reached == Reachable(store, gc_pass.entry_hash)
            removed == gc_pass.candidates \ gc_pass.res.garbage
        IN  /\ gc_pass.res.kind = "ok"
            /\ gc_pass.res.garbage \subseteq gc_pass.candidates
            /\ removed \subseteq reached
            /\ (\A hash \in reached : GetEntry(store, hash).kind = "some")
                  => removed = gc_pass.candidates \cap reached

\* a walk from a commit over a root tree with two children, one of which is
\* a tree that holds the other: every hash was a candidate and all are
\* removed
MarkWalkWitness ==
    /\ gc_pass.op = "mark"
    /\ gc_pass.entry_hash \in DOMAIN store
    /\ store[gc_pass.entry_hash].kind = "commit"
    /\ gc_pass.candidates = EntryHashes
    /\ gc_pass.res = [kind |-> "ok", garbage |-> {}]
    /\ \E hash \in Reachable(store, gc_pass.entry_hash) : Shared(store, hash)
    /\ \A hash \in EntryHashes : GetEntry(store, hash).kind = "some"

(***************************************************************************)
(* The two Writer implementations, writing and reopening:                  *)
(* commit_log::Writer (plain Files, a BufWriter per call) and              *)
(* persistent::commit_log::Writer (the Files wrapped in BufWriters)        *)
(***************************************************************************)
\* a write of `items` at offset pos of a file
WriteAt(file, pos, items) ==
    SubSeq(file, 1, pos) \o items \o SubSeq(file, pos + Len(items) + 1, Len(file))

\* a persistent::commit_log::Writer::new that takes every directory for empty
BufWriterNewFresh(idx) ==
    [open |-> TRUE, index_buf |-> << >>, data_buf |-> << >>, last_index |-> 0 - 1]

\* persistent::commit_log::Writer::new, lines 43-50: last_index from the
\* size of the index file, two empty BufWriters
BufWriterNew(idx) ==
    [open |-> TRUE, index_buf |-> << >>, data_buf |-> << >>, last_index |-> LastIndex(idx)]

\* BufWriter::write_all / write of n bytes into an empty buffer: kept in the
\* buffer unless they fill it
Buffered(n) == n < BufCapacity

\* persistent::commit_log::Writer::write: each seek first writes the buffer
\* out (BufWriter::seek), the bytes written after it stay in the buffer
BufWrite(buf) ==
    /\ buf_writer.open
    /\ Len(written) < MaxWrites
    /\ LET data_flushed == WriteAt(data_file, data_cursor, buf_writer.data_buf)
           message_pos == SeekEnd(data_flushed)
           th == Index(message_pos, Len(buf))
           index_flushed == WriteAt(index_file, index_cursor \div TH_LENGTH,
                                    buf_writer.index_buf)
           index_pos == SeekEnd(index_flushed)
           keep_data == Buffered(Len(buf))
           keep_index == Buffered(TH_LENGTH)
       IN  /\ data_file' = IF keep_data THEN data_flushed
                           ELSE WriteAt(data_flushed, message_pos, buf)
           /\ data_cursor' = IF keep_data THEN message_pos ELSE message_pos + Len(buf)
           /\ index_file' = IF keep_index THEN index_flushed
                            ELSE WriteAt(index_flushed, index_pos, <<th>>)
           /\ index_cursor' = (IF keep_index THEN index_pos ELSE index_pos + 1) * TH_LENGTH
           /\ buf_writer' = [open |-> TRUE,
                             index_buf |-> IF keep_index THEN <<th>> ELSE << >>,
                             data_buf |-> IF keep_data THEN buf ELSE << >>,
                             last_index |-> buf_writer.last_index + 1]
           /\ written' = Append(written, buf)
           /\ write_rets' = Append(write_rets, buf_writer.last_index + 1)
           /\ ret' = [op |-> "write",
                      res |-> [kind |-> "ok", val |-> buf_writer.last_index + 1]]
    /\ UNCHANGED <<writer_index, reader, appended, threads>>
    /\ UNCHANGED <<gcVars, stagingVars, commit_log_map>>

\* what flushing both BufWriters does to the files
BufFlushed ==
    /\ data_file' = WriteAt(data_file, data_cursor, buf_writer.data_buf)
    /\ data_cursor' = data_cursor + Len(buf_writer.data_buf)
    /\ index_file' = WriteAt(index_file, index_cursor \div TH_LENGTH, buf_writer.index_buf)
    /\ index_cursor' = index_cursor + Len(buf_writer.index_buf) * TH_LENGTH

\* persistent::commit_log::Writer::flush
BufFlush ==
    /\ buf_writer.open
    /\ BufFlushed
    /\ buf_writer' = [buf_writer EXCEPT !.index_buf = << >>, !.data_buf = << >>]
    /\ ret' = [op |-> "flush", res |-> [kind |-> "ok"]]
    /\ UNCHANGED <<writer_index, reader, written, write_rets, appended, threads>>
    /\ UNCHANGED <<gcVars, stagingVars, commit_log_map>>

\* the Writer is dropped (the BufWriters write their buffers out when
\* dropped) and persistent::commit_log::Writer::new opens the directory again
BufReopen ==
    /\ buf_writer.open
    /\ BufFlushed
    /\ buf_writer' = BufWriterNew(index_file')
    /\ ret' = [op |-> "new", last_index |-> buf_writer'.last_index]
    /\ UNCHANGED <<writer_index, reader, written, write_rets, appended, threads>>
    /\ UNCHANGED <<gcVars, stagingVars, commit_log_map>>

\* commit_log::Writer::write
DirectWrite(buf) ==
    /\ ~buf_writer.open
    /\ Write(buf)

\* the commit_log::Writer is dropped and Writer::new opens the directory
\* again: new file handles, read_indexes reads the index file to its end,
\* the Readers of the old Writer are gone
DirectReopen ==
    /\ ~buf_writer.open
    /\ writer_index' = ReadIndexesFrom(index_file, SeekStart(index_file))
    /\ index_cursor' = IndexFileLen(index_file)
    /\ data_cursor' = 0
    /\ reader' = NoReader
    /\ ret' = [op |-> "new", last_index |-> LastIndex(index_file)]
    /\ UNCHANGED <<index_file, data_file, written, write_rets, appended, threads,
                   buf_writer>>
    /\ UNCHANGED <<gcVars, stagingVars, commit_log_map>>

\* a Reader that opened the two files itself reads records from..from+limit-1
ReadFiles(from, limit) ==
    /\ ret' = [op |-> "range", from |-> from, limit |-> limit,
               res |-> RangeOn(ReaderIndexes(index_file), data_file, 0,
                               from, limit, FALSE).res]
    /\ UNCHANGED <<index_file, data_file, index_cursor, data_cursor, writer_index,
                   reader, written, write_rets, appended, threads, buf_writer>>
    /\ UNCHANGED <<gcVars, stagingVars, commit_log_map>>

\* a fresh directory opened by one of the two Writers
InitWriters ==
    /\ index_file = << >>
    /\ data_file = << >>
    /\ index_cursor = 0
    /\ data_cursor = 0
    /\ writer_index = << >>
    /\ reader = NoReader
    /\ written = << >>
    /\ write_rets = << >>
    /\ appended = << >>
    /\ ret = NoCall
    /\ threads = [t \in 1..NumThreads |-> Idle]
    /\ buf_writer \in {NoBufWriter, BufWriterNew(<< >>)}
    /\ commit_log_map = NoLogs
    /\ GcUnused
    /\ StagingUnused

NextWriters ==
    \/ \E buf \in Payloads : DirectWrite(buf)
    \/ DirectReopen
    \/ \E buf \in Payloads : BufWrite(buf)
    \/ BufFlush
    \/ BufReopen
    \/ \E from \in 0..MaxWrites, limit \in Limits : ReadFiles(from, limit)

SpecWriters == InitWriters /\ [][NextWriters]_vars

(***************************************************************************)
(* Properties of the two Writers                                           *)
(***************************************************************************)
\* C19: every successful Writer::write has flushed the data bytes and the
\* index record before it returns, so a reader of the files sees the record
\* as soon as write returns, with either Writer.
WriteFlushed ==
    (ret.op = "write" /\ ret.res.kind = "ok") =>
        LET out == RangeOn(ReaderIndexes(index_file), data_file, 0,
                           ret.res.val, 1, FALSE).res
        IN  /\ Len(index_file) = ret.res.val + 1
            /\ out.kind = "ok"
            /\ out.bytes = written[Len(written)]

\* the Index record of the write that just returned: in the index file, or
\* still in the BufWriter
NewestIndex ==
    IF buf_writer.open /\ buf_writer.index_buf # << >>
    THEN buf_writer.index_buf[Len(buf_writer.index_buf)]
    ELSE index_file[Len(index_file)]

\* C20: reopening preserves the log -- a Writer opened on a directory that
\* holds N index records has last_index() = N - 1, its next write returns N
\* and appends after the existing data, and records 0..N-1 keep their bytes.
ReopenPreserves ==
    [][ /\ ret'.op = "new" =>
              /\ ret'.last_index = Len(index_file') - 1
              /\ \A i \in 1..Len(index_file') :
                    PayloadAt(data_file', index_file'[i]) = written[i]
        /\ (ret.op = "new" /\ ret'.op = "write") =>
              /\ ret'.res.kind = "ok"
              /\ ret'.res.val = Len(index_file)
              /\ NewestIndex'.position = Len(data_file)
              /\ \A i \in 1..Len(index_file) :
                    /\ index_file'[i] = index_file[i]
                    /\ PayloadAt(data_file', index_file'[i]) = written[i]
      ]_vars

\* a Writer reopened on a directory that holds one record of one byte
ReopenPreservesWitness ==
    /\ ret.op = "new"
    /\ ret.last_index = 0
    /\ Len(index_file) = 1
    /\ Len(PayloadAt(data_file, index_file[1])) = 1

(***************************************************************************)
(* CommitLogs: several named logs, each behind its own RwLock, appended to *)
(* by several threads                                                      *)
(***************************************************************************)
NumLogs == 2           \* registered log names

\* the names CommitLogs::new registered
RegisteredNames == 1..NumLogs

\* S::name() of a schema that was never registered
UnregisteredName == 0

\* cl_handle: commit_log_map.get(name).cloned()
ClHandle(map, name) == IF name \in DOMAIN map THEN "some" ELSE "none"

\* a MissingCommitLog that names another log
MissingCommitLogOther(name) == [kind |-> "err", error |-> "MissingCommitLog", name |-> name + 1]

\* CommitLogError::MissingCommitLog { name }
MissingCommitLog(name) == [kind |-> "err", error |-> "MissingCommitLog", name |-> name]

\* a lock that is handed out whoever holds it
WriteLockAlways(log) == TRUE

\* cl.write() is granted when no thread holds the log's lock
WriteLockGranted(log) == log.lock = 0

\* a thread between its calls
NoAppend == [pc |-> "idle"]

\* the value a call appends: its number among the calls made so far
CallValue ==
    (Len(appended) + Cardinality({t \in Threads : threads[t].pc # "idle"})) % (MaxValue + 1)

\* CommitLogs::append, line 106-108: cl_handle found the log
BeginAppend(t, name) ==
    /\ threads[t].pc = "idle"
    /\ Len(appended) + Cardinality({u \in Threads : threads[u].pc # "idle"}) < MaxWrites
    /\ ClHandle(commit_log_map, name) = "some"
    /\ threads' = [threads EXCEPT ![t] =
                     [pc |-> "wait_write", name |-> name, value |-> CallValue]]
    /\ UNCHANGED <<logVars, buf_writer, commit_log_map>>
    /\ UNCHANGED <<gcVars, stagingVars>>

\* line 109: cl.write() granted
AcquireWrite(t) ==
    /\ threads[t].pc = "wait_write"
    /\ WriteLockGranted(commit_log_map[threads[t].name])
    /\ commit_log_map' = [commit_log_map EXCEPT ![threads[t].name].lock = t]
    /\ threads' = [threads EXCEPT ![t].pc = "seek"]
    /\ UNCHANGED <<logVars, buf_writer>>
    /\ UNCHANGED <<gcVars, stagingVars>>

\* append_msg, Writer::write line 65: message_pos = seek(SeekFrom::End(0))
SeekData(t) ==
    /\ threads[t].pc = "seek"
    /\ threads' = [threads EXCEPT ![t] =
                     [pc |-> "write", name |-> threads[t].name, value |-> threads[t].value,
                      message_pos |-> SeekEnd(commit_log_map[threads[t].name].data_file)]]
    /\ UNCHANGED <<logVars, buf_writer, commit_log_map>>
    /\ UNCHANGED <<gcVars, stagingVars>>

\* Writer::write lines 66-76, then append returns the Location and the
\* write lock is released
FinishAppend(t) ==
    /\ threads[t].pc = "write"
    /\ LET me == threads[t]
           log == commit_log_map[me.name]
           bytes == Encode(me.value)
           new_data == WriteAt(log.data_file, me.message_pos, bytes)
           new_index == WriteAt(log.index_file, SeekEnd(log.index_file),
                                <<Index(me.message_pos, Len(bytes))>>)
           location == Location(LastIndex(new_index), Len(bytes))
       IN  /\ commit_log_map' = [commit_log_map EXCEPT ![me.name] =
                 [index_file |-> new_index, data_file |-> new_data,
                  lock |-> IF log.lock = t THEN 0 ELSE log.lock]]
           /\ appended' = Append(appended, [name |-> me.name, thread |-> t,
                                            value |-> me.value, loc |-> location])
           /\ ret' = [op |-> "append", name |-> me.name,
                      res |-> [kind |-> "ok", loc |-> location]]
    /\ threads' = [threads EXCEPT ![t] = NoAppend]
    /\ UNCHANGED <<index_file, data_file, index_cursor, data_cursor, writer_index,
                   reader, written, write_rets, buf_writer>>
    /\ UNCHANGED <<gcVars, stagingVars>>

\* append, get or get_range on a name that cl_handle does not find
CallMissing(t, op, name) ==
    /\ threads[t].pc = "idle"
    /\ ClHandle(commit_log_map, name) = "none"
    /\ ret' = [op |-> op, name |-> name, res |-> MissingCommitLog(name)]
    /\ UNCHANGED <<index_file, data_file, index_cursor, data_cursor, writer_index,
                   reader, written, write_rets, appended, threads, buf_writer,
                   commit_log_map>>
    /\ UNCHANGED <<gcVars, stagingVars>>

\* CommitLogs::new with the registered names: register opens a log for each
InitLogs ==
    /\ index_file = << >>
    /\ data_file = << >>
    /\ index_cursor = 0
    /\ data_cursor = 0
    /\ writer_index = << >>
    /\ reader = NoReader
    /\ written = << >>
    /\ write_rets = << >>
    /\ appended = << >>
    /\ ret = NoCall
    /\ threads = [t \in 1..NumThreads |-> NoAppend]
    /\ buf_writer = NoBufWriter
    /\ commit_log_map = [name \in RegisteredNames |->
                           [index_file |-> << >>, data_file |-> << >>, lock |-> 0]]
    /\ GcUnused
    /\ StagingUnused

NextLogs ==
    \/ \E t \in Threads, name \in RegisteredNames : BeginAppend(t, name)
    \/ \E t \in Threads : AcquireWrite(t)
    \/ \E t \in Threads : SeekData(t)
    \/ \E t \in Threads : FinishAppend(t)
    \/ \E t \in Threads, op \in {"append", "get", "get_range"} :
          CallMissing(t, op, UnregisteredName)

SpecLogs == InitLogs /\ [][NextLogs]_vars

(***************************************************************************)
(* Properties of the named logs                                            *)
(***************************************************************************)
\* the appends to `name` that have returned
Returned(name) == {i \in 1..Len(appended) : appended[i].name = name}

\* get(location) on the log `name`, run on its own
GetNamed(name, location) ==
    GetFrom(CommitLogRead(commit_log_map[name].index_file, commit_log_map[name].data_file,
                          0, location.offset, 1).res,
            location)

\* the returned Locations of every log are distinct, number its records from
\* 0 on, and read back the value of their call
AppendsSerialized ==
    \A name \in RegisteredNames :
        /\ \A i, j \in Returned(name) :
              i # j => appended[i].loc.offset # appended[j].loc.offset
        /\ (\A t \in Threads : threads[t].pc \in {"idle", "wait_write"} \/ threads[t].name # name)
              => {appended[i].loc.offset : i \in Returned(name)}
                    = 0..(Cardinality(Returned(name)) - 1)
        /\ \A i \in Returned(name) :
              GetNamed(name, appended[i].loc) = [kind |-> "ok", val |-> appended[i].value]

\* the appends to `name` that have returned, in the order of their return
AppendedTo(name) == SelectSeq(appended, LAMBDA a : a.name = name)

\* C21: concurrent appends to one log are serialized -- the returned
\* Locations carry the distinct indexes 0..N-1 and get of each yields the
\* value of its call -- and the logs of different names do not affect one
\* another: a log holds the records of the appends to its own name and
\* nothing else, and its lock is held only by an append to its name.
ConcurrentAppends ==
    /\ AppendsSerialized
    /\ \A name \in RegisteredNames :
          LET mine == AppendedTo(name) IN
          /\ Len(commit_log_map[name].index_file) = Len(mine)
          /\ commit_log_map[name].data_file
                = Concat([k \in 1..Len(mine) |-> Encode(mine[k].value)])
          /\ commit_log_map[name].lock # 0 =>
                /\ threads[commit_log_map[name].lock].pc \in {"seek", "write"}
                /\ threads[commit_log_map[name].lock].name = name

\* two threads have appended different values to the same log
ConcurrentAppendsWitness ==
    /\ Len(appended) = 2
    /\ appended[1].name = appended[2].name
    /\ appended[1].thread # appended[2].thread
    /\ appended[1].value # appended[2].value
    /\ \A t \in Threads : threads[t].pc = "idle"

\* C23: append, get and get_range on a name that was never registered fail
\* with MissingCommitLog carrying that name and leave every registered log
\* unchanged.
MissingLogFails ==
    [][ (ret' # ret /\ ret'.op \in {"append", "get", "get_range"}
            /\ ret'.name \notin RegisteredNames) =>
           /\ ret'.res.kind = "err"
           /\ ret'.res.error = "MissingCommitLog"
           /\ ret'.res.name = ret'.name
           /\ commit_log_map' = commit_log_map
      ]_vars

\* get_range on the unregistered name while a registered log holds a record
MissingLogWitness ==
    /\ ret.op = "get_range"
    /\ ret.name = UnregisteredName
    /\ ret.res.error = "MissingCommitLog"
    /\ \E name \in RegisteredNames : Len(commit_log_map[name].index_file) = 1

(***************************************************************************)
(* PersistentStorage: flush_dbs and shutdown                               *)
(***************************************************************************)
MaxFlushes == 2        \* explicit flush_dbs calls before the storage is dropped

\* the orders in which commit_log_map.values() can yield the logs
ValuesOrders ==
    {order \in [1..NumLogs -> RegisteredNames] :
        \A i, j \in 1..NumLogs : i # j => order[i] # order[j]}

FlushOk == [kind |-> "ok"]

\* commit_log.flush()? on the log `name` when the logs in `failing` cannot
\* be flushed
LogFlush(failing, name) ==
    IF name \in failing THEN [kind |-> "err", name |-> name] ELSE FlushOk

\* CommitLogs::flush: the loop over the logs, left at the first error
RECURSIVE CommitLogsFlushFrom(_, _, _, _)
CommitLogsFlushFrom(order, failing, i, attempted) ==
    IF i > Len(order) THEN [res |-> FlushOk, attempted |-> attempted]
    ELSE LET flushed == LogFlush(failing, order[i])
         IN  IF flushed.kind = "err"
             THEN [res |-> flushed, attempted |-> Append(attempted, order[i])]
             ELSE CommitLogsFlushFrom(order, failing, i + 1, Append(attempted, order[i]))

CommitLogsFlush(order, failing) == CommitLogsFlushFrom(order, failing, 1, << >>)

\* self.kv.flush()
KvFlush(kv_fails) == IF kv_fails THEN [kind |-> "err"] ELSE FlushOk

\* the lines flush_dbs has printed after this call
Printed(before, clog, kv) ==
    IF clog.kind = "err" \/ kv.kind = "err" THEN before + 1 ELSE before

\* Drop for CommitLogs: self.flush().expect("Failed to flush commit logs")
DropCommitLogs(flushed) == IF flushed.res.kind = "err" THEN "panic" ELSE "returned"

\* what the storage has done so far
FlushCalls == IF ret.op = "flush_dbs" THEN ret.calls ELSE 0
PrintedLines == IF ret.op = "flush_dbs" THEN ret.printed ELSE 0

\* PersistentStorage::flush_dbs
FlushDbs(order, failing, kv_fails) ==
    /\ ret.op \in {"none", "flush_dbs"}
    /\ FlushCalls < MaxFlushes
    /\ LET clog == CommitLogsFlush(order, failing)
           kv == KvFlush(kv_fails)
       IN  ret' = [op |-> "flush_dbs", clog |-> clog, kv_attempted |-> TRUE, kv |-> kv,
                   printed |-> Printed(PrintedLines, clog.res, kv),
                   calls |-> FlushCalls + 1, outcome |-> "returned"]
    /\ UNCHANGED <<index_file, data_file, index_cursor, data_cursor, writer_index,
                   reader, written, write_rets, appended, threads, buf_writer,
                   commit_log_map>>
    /\ UNCHANGED <<gcVars, stagingVars>>

\* Drop for PersistentStorage: flush_dbs, then the fields are dropped; the
\* CommitLogs is dropped with it when this was the last Arc to it
DropStorage(order, failing, kv_fails, last_arc, drop_order, drop_failing) ==
    /\ ret.op \in {"none", "flush_dbs"}
    /\ LET clog == CommitLogsFlush(order, failing)
           kv == KvFlush(kv_fails)
           dropped == CommitLogsFlush(drop_order, drop_failing)
       IN  ret' = [op |-> "drop", clog |-> clog, kv_attempted |-> TRUE, kv |-> kv,
                   printed |-> Printed(PrintedLines, clog.res, kv),
                   calls |-> FlushCalls,
                   last_arc |-> last_arc,
                   outcome |-> IF last_arc THEN DropCommitLogs(dropped) ELSE "returned"]
    /\ UNCHANGED <<index_file, data_file, index_cursor, data_cursor, writer_index,
                   reader, written, write_rets, appended, threads, buf_writer,
                   commit_log_map>>
    /\ UNCHANGED <<gcVars, stagingVars>>

NextShutdown ==
    \/ \E order \in ValuesOrders, failing \in SUBSET RegisteredNames, kv_fails \in BOOLEAN :
          FlushDbs(order, failing, kv_fails)
    \/ \E order, drop_order \in ValuesOrders, failing, drop_failing \in SUBSET RegisteredNames,
          kv_fails, last_arc \in BOOLEAN :
          DropStorage(order, failing, kv_fails, last_arc, drop_order, drop_failing)

SpecShutdown == InitLogs /\ [][NextShutdown]_vars

\* C22: explicit flush and shutdown attempt the commit logs and the KV store
\* even when one of them fails, a failure is printed, and the call returns:
\* no error is propagated and nothing panics.
FlushFailureOnlyLogged ==
    [][ ret' # ret =>
          /\ ret'.clog.attempted # << >>
          /\ ret'.kv_attempted
          /\ (ret'.clog.res.kind = "err" \/ ret'.kv.kind = "err")
                => ret'.printed = PrintedLines + 1
          /\ ret'.outcome = "returned"
      ]_vars

(***************************************************************************)
(* num_codec!: the codecs of u16 and i32                                   *)
(***************************************************************************)
MaxBytesLen == 5       \* longest byte string handed to decode

\* std::mem::size_of::<i32>()
I32Width == 4

\* the types num_codec! is instantiated for
NumTypes == {"u16", "i32"}

SizeOf(type) == IF type = "u16" THEN ValueWidth ELSE I32Width

Signed(type) == type = "i32"

\* the values of a type: size_of bytes wide, two's complement when signed
NumValues(type) ==
    IF Signed(type)
    THEN (0 - (ByteBase ^ SizeOf(type)) \div 2)..((ByteBase ^ SizeOf(type)) \div 2 - 1)
    ELSE 0..(ByteBase ^ SizeOf(type) - 1)

\* the bit pattern of x as an unsigned number
Unsigned(type, x) == IF x < 0 THEN x + ByteBase ^ SizeOf(type) ELSE x

\* the `width` low bytes of the pattern u, most significant byte first
RECURSIVE BeBytes(_, _)
BeBytes(u, width) ==
    IF width = 0 THEN << >>
    ELSE Append(BeBytes(u \div ByteBase, width - 1), u % ByteBase)

\* to_le_bytes
ToLeBytes(type, x) ==
    [i \in 1..SizeOf(type) |-> (Unsigned(type, x) \div (ByteBase ^ (i - 1))) % ByteBase]

\* to_be_bytes
ToBeBytes(type, x) == BeBytes(Unsigned(type, x), SizeOf(type))

\* $num::from_be_bytes
NumFromBeBytes(type, bytes) ==
    LET u == FromBeBytes(bytes) IN
    IF Signed(type) /\ u >= (ByteBase ^ SizeOf(type)) \div 2
    THEN u - ByteBase ^ SizeOf(type)
    ELSE u

\* Encoder::encode of num_codec!($num)
NumEncode(type, x) == [kind |-> "ok", val |-> ToBeBytes(type, x)]

\* Decoder::decode of num_codec!($num)
NumDecode(type, bytes) ==
    IF Len(bytes) = SizeOf(type)
    THEN [kind |-> "ok", val |-> NumFromBeBytes(type, bytes)]
    ELSE [kind |-> "err", error |-> "DecodeError"]

\* x.encode() and decode of the bytes it gave
EncodeDecode ==
    /\ ret.op = "num_input"
    /\ LET encoded == NumEncode(ret.type, ret.value)
       IN  ret' = [op |-> "encode_decode", type |-> ret.type, value |-> ret.value,
                   encoded |-> encoded,
                   decoded |-> NumDecode(ret.type, encoded.val)]
    /\ UNCHANGED <<index_file, data_file, index_cursor, data_cursor, writer_index,
                   reader, written, write_rets, appended, threads, buf_writer,
                   commit_log_map>>
    /\ UNCHANGED <<gcVars, stagingVars>>

\* decode of a byte string of any length
DecodeBytes ==
    /\ ret.op = "bytes_input"
    /\ ret' = [op |-> "decode", type |-> ret.type, bytes |-> ret.bytes,
               decoded |-> NumDecode(ret.type, ret.bytes)]
    /\ UNCHANGED <<index_file, data_file, index_cursor, data_cursor, writer_index,
                   reader, written, write_rets, appended, threads, buf_writer,
                   commit_log_map>>
    /\ UNCHANGED <<gcVars, stagingVars>>

\* the inputs: a value of either type, or a byte string of length 0..MaxBytesLen
InitCodec ==
    /\ index_file = << >>
    /\ data_file = << >>
    /\ index_cursor = 0
    /\ data_cursor = 0
    /\ writer_index = << >>
    /\ reader = NoReader
    /\ written = << >>
    /\ write_rets = << >>
    /\ appended = << >>
    /\ threads = [t \in 1..NumThreads |-> Idle]
    /\ buf_writer = NoBufWriter
    /\ commit_log_map = NoLogs
    /\ GcUnused
    /\ \E type \in NumTypes :
          \/ \E x \in NumValues(type) :
                ret = [op |-> "num_input", type |-> type, value |-> x]
          \/ \E bytes \in ByteStrings(MaxBytesLen) :
                ret = [op |-> "bytes_input", type |-> type, bytes |-> bytes]
    /\ StagingUnused

NextCodec ==
    \/ EncodeDecode
    \/ DecodeBytes

SpecCodec == InitCodec /\ [][NextCodec]_vars

\* the place value of byte i of a big-endian number `width` bytes wide
PlaceValue(width, i) == ByteBase ^ (width - i)

\* C24: for every u16 and i32 value x, encode gives size_of bytes with the
\* most significant byte first and decode of them gives x back; decode of a
\* byte string of any other length fails with DecodeError.
NumCodecRoundTrip ==
    /\ ret.op = "encode_decode" =>
          /\ ret.encoded.kind = "ok"
          /\ Len(ret.encoded.val) = SizeOf(ret.type)
          /\ \A i \in 1..SizeOf(ret.type) :
                ret.encoded.val[i] =
                    ((ret.value + ByteBase ^ SizeOf(ret.type))
                        \div PlaceValue(SizeOf(ret.type), i)) % ByteBase
          /\ ret.decoded = [kind |-> "ok", val |-> ret.value]
    /\ (ret.op = "decode" /\ Len(ret.bytes) # SizeOf(ret.type)) =>
          ret.decoded = [kind |-> "err", error |-> "DecodeError"]

\* a negative i32 whose bytes differ from their reversal has gone through
\* encode and decode
NumCodecWitness ==
    /\ ret.op = "encode_decode"
    /\ ret.type = "i32"
    /\ ret.value < 0
    /\ \E i \in 1..I32Width : ret.encoded.val[i] # ret.encoded.val[I32Width + 1 - i]

(***************************************************************************)
(* commit_log::Writer::write when a seek or a flush fails                  *)
(***************************************************************************)
\* the calls of write that can return an I/O error: the two seeks and the
\* two flushes (write_all into a BufWriter with room only fills the buffer)
WriteFaults == {"data_seek", "index_seek", "data_flush", "index_flush"}

\* the bytes of the payload are in data_file_buf_writer when write returns
DataBuffered(fault) == fault \in {"index_seek", "data_flush"}

\* the Index record is in index_file_buf_writer when write returns
IndexBuffered(fault) == fault \in {"data_flush", "index_flush"}

\* the calls of write that have returned an error so far
FailedWrites == IF ret.op = "write" THEN ret.failed ELSE 0

\* Writer::write, every call succeeding
WriteOk(buf) ==
    /\ Len(written) + FailedWrites < MaxWrites
    /\ DoWrite(buf)
    /\ ret' = [op |-> "write", res |-> [kind |-> "ok", val |-> LastIndex(index_file')],
               failed |-> FailedWrites]
    /\ UNCHANGED <<reader, appended>>
    /\ UNCHANGED <<gcVars, stagingVars, threads, buf_writer, commit_log_map>>

\* Writer::write left by `?` at the failing call: the two BufWriters go out
\* of scope and BufWriter::drop writes out what is in the buffer, which
\* succeeds (data_drop, index_drop) or fails unnoticed
WriteFailing(buf, fault, data_drop, index_drop) ==
    /\ Len(written) + FailedWrites < MaxWrites
    /\ fault = "data_flush" => Len(buf) > 0
    /\ LET message_pos == SeekEnd(data_file)
           th == Index(message_pos, Len(buf))
           data_out == fault = "index_flush" \/ (DataBuffered(fault) /\ data_drop)
           index_out == IndexBuffered(fault) /\ index_drop
       IN  /\ data_file' = IF data_out THEN WriteAt(data_file, message_pos, buf)
                           ELSE data_file
           /\ data_cursor' = IF fault = "data_seek" THEN data_cursor
                             ELSE IF data_out THEN message_pos + Len(buf)
                             ELSE message_pos
           /\ index_file' = IF index_out
                            THEN WriteAt(index_file, SeekEnd(index_file), <<th>>)
                            ELSE index_file
           /\ index_cursor' = IF fault \in {"data_seek", "index_seek"} THEN index_cursor
                              ELSE IF index_out THEN (SeekEnd(index_file) + 1) * TH_LENGTH
                              ELSE SeekEnd(index_file) * TH_LENGTH
    /\ ret' = [op |-> "write", res |-> [kind |-> "err", error |-> "IOError"],
               failed |-> FailedWrites + 1]
    /\ UNCHANGED <<writer_index, reader, written, write_rets, appended>>
    /\ UNCHANGED <<gcVars, stagingVars, threads, buf_writer, commit_log_map>>

NextWriteFaults ==
    \/ \E buf \in Payloads : WriteOk(buf)
    \/ \E buf \in Payloads, fault \in WriteFaults, data_drop, index_drop \in BOOLEAN :
          WriteFailing(buf, fault, data_drop, index_drop)

SpecWriteFaults == InitLog /\ [][NextWriteFaults]_vars

\* record number `index` as a Reader that opened the two files reads it
RecordAt(idx, data, index) ==
    RangeOn(ReaderIndexes(idx), data, 0, index, 1, FALSE).res

\* C30: a write that returns an error adds no record -- the index file holds
\* the same records and last_index is what it was, the writer's in-memory
\* index is unchanged, and the records written before read back unchanged.
FailedWriteAddsNothing ==
    [][ (ret' # ret /\ ret'.res.kind = "err") =>
          /\ index_file' = index_file
          /\ LastIndex(index_file') = LastIndex(index_file)
          /\ writer_index' = writer_index
          /\ \A i \in 1..Len(written) :
                RecordAt(index_file', data_file', write_rets[i])
                    = RecordAt(index_file, data_file, write_rets[i])
      ]_vars

\* C31: data before index -- at every point, also after a write that failed
\* partway, every complete Index record of the index file refers to a byte
\* range that lies wholly inside the data file.
IndexWithinData ==
    \A i \in 1..Len(index_file) :
        index_file[i].position + index_file[i].data_length <= Len(data_file)

NewRwLock(writer_first) == [readers |-> {}, writer |-> 0, writer_first |-> writer_first]

\* RwLock::read returns: no writer holds the lock, and none waits for it
\* when writers go first
ReadGranted(lock, writers_waiting) ==
    /\ lock.writer = 0
    /\ lock.writer_first => writers_waiting = {}

\* RwLock::write returns: nobody holds the lock
WriteGranted(lock) == lock.writer = 0 /\ lock.readers = {}

LockRead(lock, t) == [lock EXCEPT !.readers = @ \cup {t}]

LockWrite(lock, t) == [lock EXCEPT !.writer = t]

\* a guard that is never dropped
UnlockNone(lock, t) == lock

\* the guard of thread t goes out of scope
Unlock(lock, t) ==
    [lock EXCEPT !.readers = @ \ {t}, !.writer = IF @ = t THEN 0 ELSE @]

\* the calls that take a log's lock for reading, and for writing
LockModes == [append |-> "write", get |-> "read", get_range |-> "read"]

\* a thread whose call has returned
CallDone == [pc |-> "done"]

\* the log that commit_log_map.values() yields next when the logs `names`
\* are still to come: the order is the same for every call as long as the
\* map is not changed
FirstValue(names) == CHOOSE n \in names : \A o \in names : n <= o

\* threads blocked in commit_log_map.write()
RegistryWritersWaiting == {t \in Threads : threads[t].pc = "register"}

\* threads blocked in write() on the lock of the log `name`
LogWritersWaiting(name) ==
    {t \in Threads :
        \/ threads[t].pc = "lock_log" /\ threads[t].mode = "write" /\ threads[t].name = name
        \/ threads[t].pc = "flush_log" /\ threads[t].name = name}

\* append, get or get_range is called: cl_handle comes first
BeginCall(t, op, name) ==
    /\ threads[t].pc = "idle"
    /\ threads' = [threads EXCEPT ![t] =
                     [pc |-> "handle", mode |-> LockModes[op], name |-> name]]
    /\ UNCHANGED <<logVars, buf_writer, commit_log_map>>
    /\ UNCHANGED <<gcVars, stagingVars>>

\* CommitLogs::flush is called
BeginFlush(t) ==
    /\ threads[t].pc = "idle"
    /\ threads' = [threads EXCEPT ![t] = [pc |-> "flush_registry"]]
    /\ UNCHANGED <<logVars, buf_writer, commit_log_map>>
    /\ UNCHANGED <<gcVars, stagingVars>>

\* CommitLogs::register is called with a name that is not registered yet:
\* the log is opened before the registry is locked
BeginRegister(t, name) ==
    /\ threads[t].pc = "idle"
    /\ name \notin DOMAIN commit_log_map.map
    /\ threads' = [threads EXCEPT ![t] = [pc |-> "register", name |-> name]]
    /\ UNCHANGED <<logVars, buf_writer, commit_log_map>>
    /\ UNCHANGED <<gcVars, stagingVars>>

\* cl_handle and flush: self.commit_log_map.read().unwrap()
RegistryRead(t) ==
    /\ threads[t].pc \in {"handle", "flush_registry"}
    /\ ReadGranted(commit_log_map.lock, RegistryWritersWaiting)
    /\ commit_log_map' = [commit_log_map EXCEPT !.lock = LockRead(@, t)]
    /\ threads' = [threads EXCEPT ![t] =
                     IF threads[t].pc = "handle"
                     THEN [threads[t] EXCEPT !.pc = "handle_held"]
                     ELSE [pc |-> "flush_next", remaining |-> DOMAIN commit_log_map.map]]
    /\ UNCHANGED <<logVars, buf_writer>>
    /\ UNCHANGED <<gcVars, stagingVars>>

\* cl_handle returns: the registry guard is dropped, the caller has the
\* handle of the log or returns MissingCommitLog
HandleReturn(t) ==
    /\ threads[t].pc = "handle_held"
    /\ commit_log_map' = [commit_log_map EXCEPT !.lock = Unlock(@, t)]
    /\ threads' = [threads EXCEPT ![t] =
                     IF ClHandle(commit_log_map.map, threads[t].name) = "some"
                     THEN [threads[t] EXCEPT !.pc = "lock_log"]
                     ELSE CallDone]
    /\ UNCHANGED <<logVars, buf_writer>>
    /\ UNCHANGED <<gcVars, stagingVars>>

\* cl.write() of append, cl.read() of get and get_range
LogLock(t) ==
    /\ threads[t].pc = "lock_log"
    /\ LET name == threads[t].name
           lock == commit_log_map.map[name]
       IN  IF threads[t].mode = "write"
           THEN /\ WriteGranted(lock)
                /\ commit_log_map' = [commit_log_map EXCEPT !.map[name] = LockWrite(@, t)]
           ELSE /\ ReadGranted(lock, LogWritersWaiting(name))
                /\ commit_log_map' = [commit_log_map EXCEPT !.map[name] = LockRead(@, t)]
    /\ threads' = [threads EXCEPT ![t].pc = "in_log"]
    /\ UNCHANGED <<logVars, buf_writer>>
    /\ UNCHANGED <<gcVars, stagingVars>>

\* append, get or get_range returns and the guard of the log is dropped
LogReturn(t) ==
    /\ threads[t].pc = "in_log"
    /\ commit_log_map' = [commit_log_map EXCEPT !.map[threads[t].name] = Unlock(@, t)]
    /\ threads' = [threads EXCEPT ![t] = CallDone]
    /\ UNCHANGED <<logVars, buf_writer>>
    /\ UNCHANGED <<gcVars, stagingVars>>

\* flush, the loop over commit_log_map.values(): the next log is at hand,
\* or the loop is over and the registry guard is dropped
FlushNext(t) ==
    /\ threads[t].pc = "flush_next"
    /\ IF threads[t].remaining = {}
       THEN /\ commit_log_map' = [commit_log_map EXCEPT !.lock = Unlock(@, t)]
            /\ threads' = [threads EXCEPT ![t] = CallDone]
       ELSE /\ threads' = [threads EXCEPT ![t] =
                             [pc |-> "flush_log",
                              name |-> FirstValue(threads[t].remaining),
                              remaining |-> threads[t].remaining
                                              \ {FirstValue(threads[t].remaining)}]]
            /\ UNCHANGED commit_log_map
    /\ UNCHANGED <<logVars, buf_writer>>
    /\ UNCHANGED <<gcVars, stagingVars>>

\* flush: commit_log.write().unwrap()
FlushLock(t) ==
    /\ threads[t].pc = "flush_log"
    /\ WriteGranted(commit_log_map.map[threads[t].name])
    /\ commit_log_map' = [commit_log_map EXCEPT !.map[threads[t].name] = LockWrite(@, t)]
    /\ threads' = [threads EXCEPT ![t].pc = "flush_in_log"]
    /\ UNCHANGED <<logVars, buf_writer>>
    /\ UNCHANGED <<gcVars, stagingVars>>

\* flush: commit_log.flush()?, and the guard of the log is dropped at the
\* end of the loop body
FlushUnlock(t) ==
    /\ threads[t].pc = "flush_in_log"
    /\ commit_log_map' = [commit_log_map EXCEPT !.map[threads[t].name] = Unlock(@, t)]
    /\ threads' = [threads EXCEPT ![t] =
                     [pc |-> "flush_next", remaining |-> threads[t].remaining]]
    /\ UNCHANGED <<logVars, buf_writer>>
    /\ UNCHANGED <<gcVars, stagingVars>>

\* register: self.commit_log_map.write().unwrap()
RegistryWrite(t) ==
    /\ threads[t].pc = "register"
    /\ WriteGranted(commit_log_map.lock)
    /\ commit_log_map' = [commit_log_map EXCEPT !.lock = LockWrite(@, t)]
    /\ threads' = [threads EXCEPT ![t].pc = "registering"]
    /\ UNCHANGED <<logVars, buf_writer>>
    /\ UNCHANGED <<gcVars, stagingVars>>

\* register: commit_log_map.insert(name, Arc::new(RwLock::new(log))), and
\* the guard is dropped
RegistryInsert(t) ==
    /\ threads[t].pc = "registering"
    /\ LET name == threads[t].name
           inserted == [n \in DOMAIN commit_log_map.map \cup {name} |->
                          IF n = name THEN NewRwLock(commit_log_map.lock.writer_first)
                          ELSE commit_log_map.map[n]]
       IN  commit_log_map' = [lock |-> Unlock(commit_log_map.lock, t), map |-> inserted]
    /\ threads' = [threads EXCEPT ![t] = CallDone]
    /\ UNCHANGED <<logVars, buf_writer>>
    /\ UNCHANGED <<gcVars, stagingVars>>

\* CommitLogs::new with the registered names, shared by threads that make
\* one call each
InitRegistry ==
    /\ index_file = << >>
    /\ data_file = << >>
    /\ index_cursor = 0
    /\ data_cursor = 0
    /\ writer_index = << >>
    /\ reader = NoReader
    /\ written = << >>
    /\ write_rets = << >>
    /\ appended = << >>
    /\ ret = NoCall
    /\ threads = [t \in 1..NumThreads |-> NoAppend]
    /\ buf_writer = NoBufWriter
    /\ \E writer_first \in BOOLEAN :
          commit_log_map = [lock |-> NewRwLock(writer_first),
                            map |-> [name \in RegisteredNames |-> NewRwLock(writer_first)]]
    /\ GcUnused
    /\ StagingUnused

\* what a thread does once its call has started
CallStep(t) ==
    \/ RegistryRead(t)
    \/ HandleReturn(t)
    \/ LogLock(t)
    \/ LogReturn(t)
    \/ FlushNext(t)
    \/ FlushLock(t)
    \/ FlushUnlock(t)
    \/ RegistryWrite(t)
    \/ RegistryInsert(t)

NextRegistry ==
    \/ \E t \in Threads, op \in DOMAIN LockModes,
          name \in RegisteredNames \cup {UnregisteredName} : BeginCall(t, op, name)
    \/ \E t \in Threads : BeginFlush(t)
    \/ \E t \in Threads : BeginRegister(t, UnregisteredName)
    \/ \E t \in Threads : CallStep(t)

\* every thread that can take a step is scheduled in the end
SpecRegistry ==
    /\ InitRegistry
    /\ [][NextRegistry]_vars
    /\ \A t \in Threads : WF_vars(CallStep(t))

\* the threads that hold the lock of some log
LogLockHolders ==
    UNION {commit_log_map.map[name].readers \cup ({commit_log_map.map[name].writer} \ {0}) :
           name \in DOMAIN commit_log_map.map}

\* the threads that wait for the lock of the registry
RegistryWaiters == {t \in Threads : threads[t].pc \in {"handle", "flush_registry", "register"}}

\* C33: deadlock freedom of the registry -- in every interleaving of append,
\* get, get_range, flush and register calls no thread waits for the lock of
\* the registry while it holds the lock of a log, and every call that was
\* started completes: again and again a moment comes at which no call is
\* on its way (each thread makes one call, so a call that never returned
\* would rule such moments out for good).
RegistryDeadlockFree ==
    /\ [](RegistryWaiters \cap LogLockHolders = {})
    /\ []<>(\A t \in Threads : threads[t].pc \in {"idle", "done"})

\* flush holds the registry for reading and waits for the lock of a log
\* that another call holds
RegistryWitness ==
    \E t, u \in Threads :
        /\ threads[t].pc = "flush_log"
        /\ commit_log_map.map[threads[t].name].writer = u
        /\ threads[u].pc = "in_log"
        /\ t \in commit_log_map.lock.readers

(***************************************************************************)
(* ActionFileStorage: staging of context actions until their block commits *)
(***************************************************************************)
NumBlocks == 2

MaxActions == 3

BlockHashes == 1..NumBlocks

\* Option<BlockHash> as a sequence: << >> is None, <<h>> is Some(h)
OptionalBlockHashes == {<< >>} \cup {<<h>> : h \in BlockHashes}

\* the kinds of ContextAction that the first arm of the match names
StagedKinds ==
    {"Set", "Copy", "Delete", "RemoveRecursively", "Mem", "DirMem", "Get", "Fold"}

\* the actions that are handed in: two staged kinds, Commit, and Checkout,
\* which has no block hash and falls to the last arm
ContextActions ==
    [kind : {"Set", "Delete", "Commit"}, block_hash : OptionalBlockHashes]
        \cup {[kind |-> "Checkout", block_hash |-> << >>]}

\* what ActionsFileWriter::new and BlockStorage::get can return
WriterResults == {"ok", "err"}

BlockResults == {"some", "none", "err"}

\* the first arm matches: a staged kind with block_hash: Some(block_hash)
Staged(action) == action.kind \in StagedKinds /\ action.block_hash # << >>

\* the Commit arm gets past its first return
Committing(action) == action.kind = "Commit" /\ action.block_hash # << >>

\* w.entry(block_hash).or_insert(Vec::new())
Entry(w, block_hash) == IF block_hash \in DOMAIN w THEN w[block_hash] ELSE << >>

\* block_actions.push(action) at the wrong end
PushedFirst(w, action) ==
    LET block_hash == action.block_hash[1]
    IN  [h \in DOMAIN w \cup {block_hash} |->
            IF h = block_hash THEN <<action>> \o Entry(w, block_hash) ELSE w[h]]

\* w.entry(block_hash.clone()).or_insert(Vec::new()) and
\* block_actions.push(action)
Pushed(w, action) ==
    LET block_hash == action.block_hash[1]
    IN  [h \in DOMAIN w \cup {block_hash} |->
            IF h = block_hash THEN Append(Entry(w, block_hash), action) ELSE w[h]]

\* w.remove(block_hash): the map that is left
Removed(w, block_hash) == [h \in DOMAIN w \ {block_hash} |-> w[h]]

\* a Commit arm that never returns early
CommitReachesAlways(writer, block) == TRUE

\* the Commit arm reaches action_file_writer.update: the writer was opened
\* and the block storage has the block
CommitReaches(writer, block) == writer = "ok" /\ block = "some"

\* the call as the history keeps it: the results that the code asked for
Call(action, writer, block) ==
    IF ~Committing(action) THEN [action |-> action]
    ELSE IF writer = "err" THEN [action |-> action, writer |-> writer]
    ELSE [action |-> action, writer |-> writer, block |-> block]

\* ActionFileStorage::set_in_staging(action); the staging lock is not
\* poisoned
SetInStaging(action, writer, block) ==
    /\ Len(set_in_staging) < MaxActions
    /\ set_in_staging' = Append(set_in_staging, Call(action, writer, block))
    /\ IF Staged(action)
       THEN /\ staging' = Pushed(staging, action)
            /\ UNCHANGED action_file
       ELSE IF Committing(action)
       THEN LET block_hash == action.block_hash[1]
                w == Pushed(staging, action)
            IN  IF CommitReaches(writer, block)
                THEN /\ staging' = Removed(w, block_hash)
                     /\ action_file' = Append(action_file,
                                              [block |-> block_hash, actions |-> w[block_hash]])
                ELSE /\ staging' = w
                     /\ UNCHANGED action_file
       ELSE UNCHANGED <<staging, action_file>>
    /\ UNCHANGED <<gcVars, logVars, threads, buf_writer, commit_log_map>>

\* ActionFileStorage::new over an empty staging map
InitStaging ==
    /\ staging = << >>
    /\ action_file = << >>
    /\ set_in_staging = << >>
    /\ LogUnused
    /\ GcUnused

NextStaging ==
    \E action \in ContextActions, writer \in WriterResults, block \in BlockResults :
        SetInStaging(action, writer, block)

SpecStaging == InitStaging /\ [][NextStaging]_vars

\* the call went all the way to action_file_writer.update
Written(call) ==
    /\ Committing(call.action)
    /\ call.writer = "ok"
    /\ call.block = "some"

\* the call put its action into the staging map
Arrived(call, block_hash) ==
    /\ Staged(call.action) \/ Committing(call.action)
    /\ call.action.block_hash = <<block_hash>>

\* the calls 1..n: the last one that wrote the block, 0 if there is none
RECURSIVE LastWritten(_, _)
LastWritten(block_hash, n) ==
    IF n = 0 THEN 0
    ELSE IF Written(set_in_staging[n]) /\ Arrived(set_in_staging[n], block_hash) THEN n
    ELSE LastWritten(block_hash, n - 1)

\* the actions that arrived for the block in the calls from..to, in the
\* order of the calls
RECURSIVE ArrivedIn(_, _, _)
ArrivedIn(block_hash, from, to) ==
    IF to < from THEN << >>
    ELSE IF Arrived(set_in_staging[to], block_hash)
    THEN Append(ArrivedIn(block_hash, from, to - 1), set_in_staging[to].action)
    ELSE ArrivedIn(block_hash, from, to - 1)

\* what the calls 1..n handed to the action-file writer if each successful
\* Commit hands over what has arrived for its block since the Commit before
RECURSIVE Handed(_)
Handed(n) ==
    IF n = 0 THEN << >>
    ELSE IF Written(set_in_staging[n])
    THEN LET block_hash == set_in_staging[n].action.block_hash[1]
         IN  Append(Handed(n - 1),
                    [block |-> block_hash,
                     actions |-> ArrivedIn(block_hash, LastWritten(block_hash, n - 1) + 1, n)])
    ELSE Handed(n - 1)

\* C34: action staging order -- the staging map holds for every block
\* exactly the actions that arrived for it since its last successful Commit,
\* in arrival order, and no entry for a block that has none; every
\* successful Commit handed the writer the actions that had arrived for its
\* block up to then, in arrival order and with the Commit last.
StagingOrder ==
    LET n == Len(set_in_staging)
    IN  /\ DOMAIN staging \subseteq BlockHashes
        /\ \A h \in BlockHashes :
              /\ Entry(staging, h) = ArrivedIn(h, LastWritten(h, n) + 1, n)
              /\ h \in DOMAIN staging <=> ArrivedIn(h, LastWritten(h, n) + 1, n) # << >>
        /\ action_file = Handed(n)
        /\ \A i \in 1..Len(action_file) :
              action_file[i].actions[Len(action_file[i].actions)].kind = "Commit"

\* a Commit was written after two actions of two kinds for its block, while
\* the other block keeps its action
StagingOrderWitness ==
    /\ Len(action_file) = 1
    /\ Len(action_file[1].actions) = 2
    /\ action_file[1].actions[1].kind = "Delete"
    /\ action_file[1].block \notin DOMAIN staging
    /\ \E h \in DOMAIN staging : Len(staging[h]) = 1

\* C35: action staging on failure -- a Commit whose writer could not be
\* opened, or whose block is missing from or unreadable in the block
\* storage, writes nothing and leaves its block's actions and itself in
\* staging; an action without block hash or of a kind that is not staged
\* changes neither staging nor the action file.
StagingOnFailure ==
    [][LET call == set_in_staging'[Len(set_in_staging')]
       IN  /\ (Committing(call.action) /\ ~Written(call)) =>
                 /\ action_file' = action_file
                 /\ staging' = Pushed(staging, call.action)
                 /\ \A h \in DOMAIN staging :
                       SubSeq(staging'[h], 1, Len(staging[h])) = staging[h]
           /\ (~Committing(call.action) /\ ~Staged(call.action)) =>
                 /\ action_file' = action_file
                 /\ staging' = staging]_vars

\* a Commit failed for want of the block after an action was staged, and
\* then one for want of the writer
StagingFailureWitness ==
    /\ Len(set_in_staging) = 3
    /\ Staged(set_in_staging[1].action)
    /\ Committing(set_in_staging[2].action)
    /\ set_in_staging[2].writer = "ok" /\ set_in_staging[2].block = "none"
    /\ Committing(set_in_staging[3].action)
    /\ set_in_staging[3].writer = "err"
    /\ set_in_staging[3].action.block_hash = set_in_staging[1].action.block_hash
    /\ set_in_staging[2].action.block_hash = set_in_staging[1].action.block_hash
    /\ action_file = << >>
    /\ Len(staging[set_in_staging[1].action.block_hash[1]]) = 3

(***************************************************************************)
(* impl KVStore for MarkSweepGCed: the calls that go to the wrapped store  *)
(***************************************************************************)
NumKeys == 2

EntryKeys == 1..NumKeys

\* Result<_, KVStoreError> of the wrapped backend
Ok(value) == [kind |-> "ok", value |-> value]

Err == [kind |-> "err"]

\* T::get, T::contains, T::put and T::delete of the wrapped backend: a
\* failing call changes nothing; put returns whether the key is new, delete
\* the value that was stored
BackendGet(st, key, fails) ==
    [store |-> st, ret |-> IF fails THEN Err ELSE Ok(StoreGet(st, key))]

BackendContains(st, key, fails) ==
    [store |-> st, ret |-> IF fails THEN Err ELSE Ok(StoreContains(st, key))]

BackendPut(st, key, value, fails) ==
    IF fails THEN [store |-> st, ret |-> Err]
    ELSE [store |-> StorePut(st, key, value), ret |-> Ok(~StoreContains(st, key))]

BackendDelete(st, key, fails) ==
    IF fails THEN [store |-> st, ret |-> Err]
    ELSE [store |-> StoreDelete(st, key), ret |-> Ok(StoreGet(st, key))]

\* T::get_stats
BackendStats(st) == [store |-> st, ret |-> [keys |-> Cardinality(Keys(st))]]

\* a wrapper that drops the backend's result and reports an error
DelegateErr(call) == [call EXCEPT !.ret = Err]

\* the bodies of get, contains, put, delete and get_stats: the call to
\* self.store is the whole body, its result the result
Delegate(call) == call

\* what a call leaves in gc_pass
KvPass(op, key, fails, call) ==
    [op |-> op, key |-> key, fails |-> fails, ret |-> call.ret,
     before |-> store, before_commits |-> commit_store]

\* MarkSweepGCed::get
GcedGet(key, fails) ==
    /\ store' = Delegate(BackendGet(store, key, fails)).store
    /\ gc_pass' = KvPass("get", key, fails, Delegate(BackendGet(store, key, fails)))
    /\ UNCHANGED <<commit_store, cycle_threshold, cycle_block_count>>
    /\ UNCHANGED <<logVars, stagingVars, threads, buf_writer, commit_log_map>>

\* MarkSweepGCed::contains
GcedContains(key, fails) ==
    /\ store' = Delegate(BackendContains(store, key, fails)).store
    /\ gc_pass' = KvPass("contains", key, fails, Delegate(BackendContains(store, key, fails)))
    /\ UNCHANGED <<commit_store, cycle_threshold, cycle_block_count>>
    /\ UNCHANGED <<logVars, stagingVars, threads, buf_writer, commit_log_map>>

\* MarkSweepGCed::put
GcedPut(key, value, fails) ==
    /\ store' = Delegate(BackendPut(store, key, value, fails)).store
    /\ gc_pass' = KvPass("put", key, fails, Delegate(BackendPut(store, key, value, fails))) @@ [value |-> value]
    /\ UNCHANGED <<commit_store, cycle_threshold, cycle_block_count>>
    /\ UNCHANGED <<logVars, stagingVars, threads, buf_writer, commit_log_map>>

\* MarkSweepGCed::delete
GcedDelete(key, fails) ==
    /\ store' = Delegate(BackendDelete(store, key, fails)).store
    /\ gc_pass' = KvPass("delete", key, fails, Delegate(BackendDelete(store, key, fails)))
    /\ UNCHANGED <<commit_store, cycle_threshold, cycle_block_count>>
    /\ UNCHANGED <<logVars, stagingVars, threads, buf_writer, commit_log_map>>

\* MarkSweepGCed::mark_reused: an empty body
MarkReused(key) ==
    /\ gc_pass' = [op |-> "mark_reused", key |-> key,
                   before |-> store, before_commits |-> commit_store]
    /\ UNCHANGED <<store, commit_store, cycle_threshold, cycle_block_count>>
    /\ UNCHANGED <<logVars, stagingVars, threads, buf_writer, commit_log_map>>

\* MarkSweepGCed::wait_for_gc_finish: an empty body
WaitForGcFinish ==
    /\ gc_pass' = [op |-> "wait_for_gc_finish",
                   before |-> store, before_commits |-> commit_store]
    /\ UNCHANGED <<store, commit_store, cycle_threshold, cycle_block_count>>
    /\ UNCHANGED <<logVars, stagingVars, threads, buf_writer, commit_log_map>>

\* MarkSweepGCed::get_stats
GetStats ==
    /\ store' = Delegate(BackendStats(store)).store
    /\ gc_pass' = [op |-> "get_stats", ret |-> Delegate(BackendStats(store)).ret,
                   before |-> store, before_commits |-> commit_store]
    /\ UNCHANGED <<commit_store, cycle_threshold, cycle_block_count>>
    /\ UNCHANGED <<logVars, stagingVars, threads, buf_writer, commit_log_map>>

\* MarkSweepGCed::new, and the hash set of a commit that store_commit_tree
\* may have pushed since
InitKV ==
    /\ store = << >>
    /\ commit_store \in {<< >>} \cup {<<commit_tree>> : commit_tree \in CommitTrees}
    /\ cycle_threshold \in 0..MaxThreshold
    /\ cycle_block_count \in 1..MaxBlockCount
    /\ gc_pass = NoPass
    /\ LogUnused
    /\ StagingUnused

NextKV ==
    \/ \E key \in EntryKeys, fails \in BOOLEAN : GcedGet(key, fails)
    \/ \E key \in EntryKeys, fails \in BOOLEAN : GcedContains(key, fails)
    \/ \E key \in EntryKeys, value \in Values, fails \in BOOLEAN : GcedPut(key, value, fails)
    \/ \E key \in EntryKeys, fails \in BOOLEAN : GcedDelete(key, fails)
    \/ \E key \in EntryKeys : MarkReused(key)
    \/ WaitForGcFinish
    \/ GetStats

SpecKV == InitKV /\ [][NextKV]_vars

\* the keys other than `key` are stored as they were
OthersKept(before, after, key) ==
    /\ DOMAIN after \ {key} = DOMAIN before \ {key}
    /\ \A k \in DOMAIN before \ {key} : after[k] = before[k]

\* C36: MarkSweepGCed is a transparent wrapper for key access -- get,
\* contains, put and delete return what the wrapped backend returns for the
\* contents it had (the stored value or None, whether the key is stored,
\* whether the key was new, the value that was stored, or the backend's
\* error) and leave in the backend what the backend's own call leaves; none
\* of them, nor mark_reused, wait_for_gc_finish and get_stats, changes
\* commit_store, and the last three leave the backend as it was.
TransparentWrapper ==
    LET p == gc_pass
        IsStored == p.key \in DOMAIN p.before
        Stored == IF IsStored THEN p.before[p.key] ELSE None
    IN  /\ p.op \in {"get", "contains", "put", "delete",
                     "mark_reused", "wait_for_gc_finish", "get_stats"} =>
              commit_store = p.before_commits
        /\ p.op \in {"get", "contains", "mark_reused", "wait_for_gc_finish", "get_stats"} =>
              store = p.before
        /\ p.op \in {"get", "contains", "put", "delete"} /\ p.fails =>
              store = p.before /\ p.ret = [kind |-> "err"]
        /\ p.op = "get" /\ ~p.fails => p.ret = [kind |-> "ok", value |-> Stored]
        /\ p.op = "contains" /\ ~p.fails => p.ret = [kind |-> "ok", value |-> IsStored]
        /\ p.op = "put" /\ ~p.fails =>
              /\ p.ret = [kind |-> "ok", value |-> ~IsStored]
              /\ p.key \in DOMAIN store /\ store[p.key] = p.value
              /\ OthersKept(p.before, store, p.key)
        /\ p.op = "delete" /\ ~p.fails =>
              /\ p.ret = [kind |-> "ok", value |-> Stored]
              /\ p.key \notin DOMAIN store
              /\ OthersKept(p.before, store, p.key)

\* a stored key was deleted while another key and a commit's hash set were
\* held
TransparentWitness ==
    /\ gc_pass.op = "delete"
    /\ ~gc_pass.fails
    /\ gc_pass.key \in DOMAIN gc_pass.before
    /\ DOMAIN store # {}
    /\ Len(commit_store) > 0

====
